---- MODULE Spec2Model ----
(***************************************************************************)
(* Bonus activation saga of io-functions-bonus.                            *)
(*                                                                         *)
(* The model follows the request from StartBonusActivation (admission,     *)
(* lease, activation row, orchestrator start) through                      *)
(* StartBonusActivationOrchestrator (SendBonusActivationActivity, then     *)
(* FailedBonusActivationActivity or SuccessBonusActivationActivity, then   *)
(* UnlockBonusActivationActivity) over the three document collections      *)
(* (eligibility checks, bonus activations, bonus leases).                  *)
(*                                                                         *)
(* Fiscal codes and bonus codes are small integers of disjoint ranges; a   *)
(* FamilyUID is the sorted sequence of the family's fiscal codes (sha256   *)
(* is taken as injective on the joined string).                            *)
(***************************************************************************)
EXTENDS Integers, Sequences, FiniteSets, TLC

VARIABLES
  eligibility,   \* eligibility-checks collection: document id -> document
  activations,   \* bonus-activations collection: bonus code -> document
  leases,        \* bonus-leases collection: FamilyUID -> number of documents
  pc,            \* position of the StartBonusActivation request of each user
  req,           \* locals of that request (familyUID, attempts, tried codes)
  response,      \* last HTTP response given to each user
  orch,          \* durable state of the user's orchestrator instance
  pos,           \* in-memory position of the orchestrator generator
  ghost,         \* history of the current saga instance of each user
  call           \* last direct invocation of a handler or function, with its result

vars == <<eligibility, activations, leases, pc, req, response, orch, pos,
          ghost, call>>

----------------------------------------------------------------------------
(* Bounds of the model *)

\* fiscal codes of the requesting users
FiscalCodes == {1, 2}

\* bonus codes the code generator can produce
BonusCodes == {11, 12}

\* DSU family rosters an eligibility check of each user can list: users 1 and
\* 2 are of the same family, listed in a different order, or user 2 has
\* declared a family of its own
Rosters(fc) == IF fc = 1 THEN {<<1, 2>>} ELSE {<<2, 1>>, <<2>>}

----------------------------------------------------------------------------
(* utils/hash.ts *)

\* s with x inserted before the first element that sorts after it
RECURSIVE InsertSorted(_, _)
InsertSorted(x, s) ==
  IF s = <<>> THEN <<x>>
  ELSE IF x <= Head(s) THEN <<x>> \o s
  ELSE <<Head(s)>> \o InsertSorted(x, Tail(s))

\* Array.sort((a, b) => a.localeCompare(b))
RECURSIVE SortCodes(_)
SortCodes(s) == IF s = <<>> THEN <<>> ELSE InsertSorted(Head(s), SortCodes(Tail(s)))

\* sha256 hex digest, taken as injective
toHash(s) == s

\* the fiscal codes of the members, sorted, joined and hashed
generateFamilyUID(familyMembers) == toHash(SortCodes(familyMembers))

FamilyUIDs ==
  {generateFamilyUID(roster) : roster \in UNION {Rosters(fc) : fc \in FiscalCodes}}

----------------------------------------------------------------------------
(* Document collections *)

\* f without the key k
Without(f, k) == [x \in (DOMAIN f) \ {k} |-> f[x]]

\* f with key k bound to v
With(f, k, v) == [x \in (DOMAIN f) \cup {k} |-> IF x = k THEN v ELSE f[x]]

\* a create that does not look for an existing document
BonusLeaseCreateUnchecked(ls, familyUID) ==
  [ok |-> TRUE, leases |-> [ls EXCEPT ![familyUID] = @ + 1]]

\* BonusLeaseModel.create: create-if-absent, 409 when a document with this id exists
BonusLeaseCreate(ls, familyUID) ==
  IF ls[familyUID] > 0
    THEN [ok |-> FALSE, leases |-> ls]
    ELSE [ok |-> TRUE, leases |-> [ls EXCEPT ![familyUID] = 1]]

\* BonusLeaseModel.deleteOneById: removes the lease document of the family; a
\* release of a lease that does not exist counts as successful
BonusLeaseDeleteOneById(ls, familyUID) ==
  IF ls[familyUID] > 0
    THEN [ok |-> TRUE, leases |-> [ls EXCEPT ![familyUID] = @ - 1]]
    ELSE [ok |-> TRUE, leases |-> ls]

\* EligibilityCheckModel.deleteOneById: left(err) when deleteDocument reports an
\* error (404 for a missing document), right(documentId) otherwise
EligibilityDeleteOneById(el, documentId) ==
  IF documentId \in DOMAIN el
    THEN [ok |-> TRUE, eligibility |-> Without(el, documentId)]
    ELSE [ok |-> FALSE, eligibility |-> el]

\* BonusActivationModel.createOrUpdate: upsert keyed by the document id
BonusActivationCreateOrUpdate(acts, doc) == With(acts, doc.id, doc)

----------------------------------------------------------------------------
(* FailedBonusActivationActivity/handler.ts *)

\* FailedBonusActivationInput.decode: an object holding a bonusActivation that
\* is a BonusActivationWithFamilyUID
FailedBonusActivationInputDecodes(input) ==
  /\ "bonusActivation" \in DOMAIN input
  /\ {"id", "applicantFiscalCode", "status", "familyUID"}
        \subseteq DOMAIN input.bonusActivation

\* the query faults a run of the handler can meet, one per store operation
StoreFaults == {"none", "deleteEligibilityCheck", "updateBonusAsFailed",
                "relaseLockForUserFamily"}

\* deleteEligibilityCheck reporting its failures as unhandled ones
deleteEligibilityCheckUnhandled(el, bonusActivation, fault) ==
  LET del == EligibilityDeleteOneById(el, bonusActivation.id)
  IN  IF fault = "deleteEligibilityCheck" \/ ~del.ok
        THEN [ok |-> FALSE, kind |-> "UNHANDLED_FAILURE", reason |-> "err.message",
              eligibility |-> el]
        ELSE [ok |-> TRUE, kind |-> "SUCCESS", reason |-> "none",
              eligibility |-> del.eligibility]

\* deleteEligibilityCheck: deletes the eligibility check whose document id is
\* bonusActivation.id; every failure is a TRANSIENT failure
deleteEligibilityCheck(el, bonusActivation, fault) ==
  LET del == EligibilityDeleteOneById(el, bonusActivation.id)
  IN  IF fault = "deleteEligibilityCheck" \/ ~del.ok
        THEN [ok |-> FALSE, kind |-> "TRANSIENT", reason |-> "none",
              eligibility |-> el]
        ELSE [ok |-> TRUE, kind |-> "SUCCESS", reason |-> "none",
              eligibility |-> del.eligibility]

\* an update that stores the id and the new status only
updateBonusAsFailedStatusOnly(acts, bonusActivation, fault) ==
  IF fault = "updateBonusAsFailed"
    THEN [ok |-> FALSE, kind |-> "UNHANDLED_FAILURE", reason |-> "err.message",
          activations |-> acts]
    ELSE [ok |-> TRUE, kind |-> "SUCCESS", reason |-> "none",
          activations |-> BonusActivationCreateOrUpdate(acts,
                            [id |-> bonusActivation.id, status |-> "FAILED"])]

\* updateBonusAsFailed: upserts the activation with status FAILED under its
\* id; a failure is an UNHANDLED_FAILURE whose reason is the error message
updateBonusAsFailed(acts, bonusActivation, fault) ==
  IF fault = "updateBonusAsFailed"
    THEN [ok |-> FALSE, kind |-> "UNHANDLED_FAILURE", reason |-> "err.message",
          activations |-> acts]
    ELSE [ok |-> TRUE, kind |-> "SUCCESS", reason |-> "none",
          activations |-> BonusActivationCreateOrUpdate(acts,
                            [bonusActivation EXCEPT !.status = "FAILED"])]

\* relaseLockForUserFamily: deletes the lease of the family; a failure is an
\* UNHANDLED_FAILURE whose reason holds the error message
relaseLockForUserFamily(ls, familyUID, fault) ==
  LET del == BonusLeaseDeleteOneById(ls, familyUID)
  IN  IF fault = "relaseLockForUserFamily" \/ ~del.ok
        THEN [ok |-> FALSE, kind |-> "UNHANDLED_FAILURE",
              reason |-> "Error releasing lock: err.message", leases |-> ls]
        ELSE [ok |-> TRUE, kind |-> "SUCCESS", reason |-> "none",
              leases |-> del.leases]

\* the handler going on with the remaining steps after a step has failed
FailedBonusActivationHandlerGoesOn(stores, input, fault) ==
  IF ~FailedBonusActivationInputDecodes(input)
    THEN [kind |-> "INVALID_INPUT", reason |-> "none", thrown |-> FALSE,
          steps |-> 0, stores |-> stores]
  ELSE
  LET ba == input.bonusActivation
      s1 == deleteEligibilityCheck(stores.eligibility, ba, fault)
      s2 == updateBonusAsFailed(stores.activations, ba, fault)
      s3 == relaseLockForUserFamily(stores.leases, ba.familyUID, fault)
      failed == IF ~s1.ok THEN s1 ELSE IF ~s2.ok THEN s2 ELSE s3
  IN  [kind |-> failed.kind, reason |-> failed.reason,
       thrown |-> failed.kind = "TRANSIENT",
       steps |-> IF ~s1.ok THEN 0 ELSE IF ~s2.ok THEN 1 ELSE IF ~s3.ok THEN 2 ELSE 3,
       stores |-> [eligibility |-> s1.eligibility,
                   activations |-> s2.activations,
                   leases |-> s3.leases]]

\* the handler raising an error on an input it does not decode
FailedBonusActivationHandlerRaises(stores, input, fault) ==
  IF ~FailedBonusActivationInputDecodes(input)
    THEN [kind |-> "INVALID_INPUT", reason |-> "none", thrown |-> TRUE,
          steps |-> 0, stores |-> stores]
    ELSE FailedBonusActivationHandlerGoesOn(stores, input, fault)

\* FailedBonusActivationHandler: decode, delete the eligibility check, mark
\* the activation FAILED, release the lease; the first failing step ends the
\* chain, and a TRANSIENT failure is thrown instead of returned.
\* steps counts the store operations that completed.
FailedBonusActivationHandler(stores, input, fault) ==
  LET unchanged == [eligibility |-> stores.eligibility,
                    activations |-> stores.activations,
                    leases |-> stores.leases]
  IN
  IF ~FailedBonusActivationInputDecodes(input)
    THEN [kind |-> "INVALID_INPUT", reason |-> "none", thrown |-> FALSE,
          steps |-> 0, stores |-> unchanged]
  ELSE
  LET ba == input.bonusActivation
      s1 == deleteEligibilityCheck(stores.eligibility, ba, fault)
  IN
  IF ~s1.ok
    THEN [kind |-> s1.kind, reason |-> s1.reason,
          thrown |-> s1.kind = "TRANSIENT", steps |-> 0, stores |-> unchanged]
  ELSE
  LET s2 == updateBonusAsFailed(stores.activations, ba, fault)
  IN
  IF ~s2.ok
    THEN [kind |-> s2.kind, reason |-> s2.reason,
          thrown |-> s2.kind = "TRANSIENT", steps |-> 1,
          stores |-> [unchanged EXCEPT !.eligibility = s1.eligibility]]
  ELSE
  LET s3 == relaseLockForUserFamily(stores.leases, ba.familyUID, fault)
  IN
  IF ~s3.ok
    THEN [kind |-> s3.kind, reason |-> s3.reason,
          thrown |-> s3.kind = "TRANSIENT", steps |-> 2,
          stores |-> [unchanged EXCEPT !.eligibility = s1.eligibility,
                                       !.activations = s2.activations]]
    ELSE [kind |-> "SUCCESS", reason |-> "none", thrown |-> FALSE, steps |-> 3,
          stores |-> [eligibility |-> s1.eligibility,
                      activations |-> s2.activations,
                      leases |-> s3.leases]]

----------------------------------------------------------------------------
(* SendBonusActivationActivity, SuccessBonusActivationActivity,
   UnlockBonusActivationActivity *)

\* values SendBonusActivationActivity returns: a success, a failure carrying a
\* reason (the decoded validation error, or the serialized raw response), or
\* an invalid-input result
SendResults ==
  { [kind |-> "SUCCESS", reason |-> "none"],
    [kind |-> "FAILURE", reason |-> "InvalidRequest"],
    [kind |-> "FAILURE", reason |-> "Unhandled"],
    [kind |-> "INVALID_INPUT", reason |-> "none"] }

\* SendBonusActivationFailure.is: a failure result carrying its reason
SendBonusActivationFailureIs(result) == result.kind = "FAILURE"

\* BonusVacanzaBase.decode on the input of the activity that finds every field
\* it needs
SendBonusActivationInputDecodesAnything(input) == TRUE

\* BonusVacanzaBase.decode on the input of the activity: the bonus code and
\* the fiscal code of the applicant
SendBonusActivationInputDecodes(input) ==
  {"codiceBuono", "codiceFiscaleDichiarante"} \subseteq DOMAIN input

\* BonusVacanzaError: an error payload of the ADE service
BonusVacanzaErrorIs(value) == {"errorCode", "errorMessage"} \subseteq DOMAIN value

\* the validation errors without the one of the missing generation date
BonusVacanzaInvalidRequestErrorIsNarrow(value) ==
  /\ BonusVacanzaErrorIs(value)
  /\ value.errorCode \in {"1000", "1005", "900", "907"}

\* BonusVacanzaInvalidRequestError.is: code already present, requested by
\* other family member, empty family, no fiscal code, no generation date
BonusVacanzaInvalidRequestErrorIs(value) ==
  /\ BonusVacanzaErrorIs(value)
  /\ value.errorCode \in {"1000", "1005", "900", "907", "908"}

\* the transient errors without the generic application error
BonusVacanzaTransientErrorIsNarrow(value) ==
  /\ BonusVacanzaErrorIs(value)
  /\ value.errorCode \in {"4000"}

\* BonusVacanzaTransientError.is: generic error, generic application error
BonusVacanzaTransientErrorIs(value) ==
  /\ BonusVacanzaErrorIs(value)
  /\ value.errorCode \in {"4000", "3000"}

\* a serialization that hands the object back as it is
JSONStringifyRaw(x) == x

\* JSON.stringify: the string that spells the object
JSONStringify(x) == [json |-> x]

\* readableReport: the string that spells the validation errors
readableReport(errors) == [report |-> errors]

NoReason == [none |-> TRUE]

\* what an invocation of SendBonusActivationHandler gives: the value it
\* returns (kind, reason) or the error it throws (thrown, error), and whether
\* it called the ADE service
SendReturn(kind, reason, apiCalled) ==
  [kind |-> kind, reason |-> reason, thrown |-> FALSE, error |-> NoReason,
   apiCalled |-> apiCalled]
SendThrow(error) ==
  [kind |-> "ERROR", reason |-> NoReason, thrown |-> TRUE, error |-> error,
   apiCalled |-> TRUE]

\* SendBonusActivationHandler on an input, with what richiestaBonus gives when
\* it is called: a rejection, a decoding error (left) or a decoded response
\* (right) with its status and value
SendBonusActivationHandler(input, api) ==
  IF ~SendBonusActivationInputDecodes(input)
    THEN SendReturn("INVALID_INPUT", NoReason, FALSE)
  ELSE IF api.tag = "rejected"
    THEN SendThrow([kind |-> "ADE_SERVICE_FAILURE"])
  ELSE IF api.tag = "left"
    THEN SendReturn("FAILURE", readableReport(api.errors), TRUE)
  ELSE IF api.response.status = 200
    THEN SendReturn("SUCCESS", NoReason, TRUE)
  ELSE IF BonusVacanzaInvalidRequestErrorIs(api.response.value)
    THEN SendReturn("FAILURE", api.response.value, TRUE)
  ELSE IF BonusVacanzaTransientErrorIs(api.response.value)
    THEN SendThrow(api.response)
  ELSE SendReturn("FAILURE", JSONStringify(api.response), TRUE)

\* SuccessBonusActivationActivity: persists the activation of the saga ACTIVE
SuccessBonusActivationActivity(acts, code) ==
  IF code \in DOMAIN acts
    THEN [acts EXCEPT ![code].status = "ACTIVE"]
    ELSE acts

\* UnlockBonusActivationActivity: releases the lease of the family
UnlockBonusActivationActivity(ls, familyUID) ==
  BonusLeaseDeleteOneById(ls, familyUID).leases

----------------------------------------------------------------------------
(* StartBonusActivationOrchestrator *)

\* callActivityWithRetry options of SendBonusActivationActivity
maxNumberOfAttempts == 10

\* OrchestratorInput.decode: an object with familyUID and fiscalCode
OrchestratorInputDecodes(input) ==
  {"familyUID", "fiscalCode"} \subseteq DOMAIN input

Call(name, arg) == [op |-> "call", name |-> name, arg |-> arg, value |-> FALSE]
Return(value) == [op |-> "return", name |-> "", arg |-> <<>>, value |-> value]
Throw == [op |-> "throw", name |-> "", arg |-> <<>>, value |-> FALSE]

\* the generator releasing the lease first, before the grant request
handlerUnlockFirst(input, h) ==
  IF ~OrchestratorInputDecodes(input) THEN Return(FALSE)
  ELSE IF Len(h) = 0 THEN Call("UnlockBonusActivationActivity", input.familyUID)
  ELSE IF h[1].thrown THEN Throw
  ELSE IF Len(h) = 1 THEN Call("SendBonusActivationActivity", input)
  ELSE IF h[2].thrown THEN Throw
  ELSE IF Len(h) = 2 THEN
    IF SendBonusActivationFailureIs(h[2].result)
      THEN Call("FailedBonusActivationActivity", input)
      ELSE Call("SuccessBonusActivationActivity", input)
  ELSE IF h[3].thrown THEN Throw
  ELSE Return(TRUE)

\* the generator returning right after the branch activity
handlerNoUnlock(input, h) ==
  IF ~OrchestratorInputDecodes(input) THEN Return(FALSE)
  ELSE IF Len(h) = 0 THEN Call("SendBonusActivationActivity", input)
  ELSE IF h[1].thrown THEN Throw
  ELSE IF Len(h) = 1 THEN
    IF SendBonusActivationFailureIs(h[1].result)
      THEN Call("FailedBonusActivationActivity", input)
      ELSE Call("SuccessBonusActivationActivity", input)
  ELSE IF h[2].thrown THEN Throw
  ELSE Return(TRUE)

\* the generator releasing the lease a second time before it returns
handlerUnlockTwice(input, h) ==
  IF ~OrchestratorInputDecodes(input) THEN Return(FALSE)
  ELSE IF Len(h) = 0 THEN Call("SendBonusActivationActivity", input)
  ELSE IF h[1].thrown THEN Throw
  ELSE IF Len(h) = 1 THEN
    IF SendBonusActivationFailureIs(h[1].result)
      THEN Call("FailedBonusActivationActivity", input)
      ELSE Call("SuccessBonusActivationActivity", input)
  ELSE IF h[2].thrown THEN Throw
  ELSE IF Len(h) = 2 THEN Call("UnlockBonusActivationActivity", input.familyUID)
  ELSE IF h[3].thrown THEN Throw
  ELSE IF Len(h) = 3 THEN Call("UnlockBonusActivationActivity", input.familyUID)
  ELSE IF h[4].thrown THEN Throw
  ELSE Return(TRUE)

\* the generator repeating the grant request itself before it branches
handlerSendTwice(input, h) ==
  IF ~OrchestratorInputDecodes(input) THEN Return(FALSE)
  ELSE IF Len(h) = 0 THEN Call("SendBonusActivationActivity", input)
  ELSE IF h[1].thrown THEN Throw
  ELSE IF Len(h) = 1 THEN Call("SendBonusActivationActivity", input)
  ELSE IF h[2].thrown THEN Throw
  ELSE IF Len(h) = 2 THEN
    IF SendBonusActivationFailureIs(h[2].result)
      THEN Call("FailedBonusActivationActivity", input)
      ELSE Call("SuccessBonusActivationActivity", input)
  ELSE IF h[3].thrown THEN Throw
  ELSE IF Len(h) = 3 THEN Call("UnlockBonusActivationActivity", input.familyUID)
  ELSE IF h[4].thrown THEN Throw
  ELSE Return(TRUE)

\* the generator sending the grant request before it looks at its input
handlerSendsUndecoded(input, h) ==
  IF Len(h) = 0 THEN Call("SendBonusActivationActivity", input)
  ELSE IF ~OrchestratorInputDecodes(input) THEN Return(FALSE)
  ELSE IF h[1].thrown THEN Throw
  ELSE IF Len(h) = 1 THEN
    IF SendBonusActivationFailureIs(h[1].result)
      THEN Call("FailedBonusActivationActivity", input)
      ELSE Call("SuccessBonusActivationActivity", input)
  ELSE IF h[2].thrown THEN Throw
  ELSE IF Len(h) = 2 THEN Call("UnlockBonusActivationActivity", input.familyUID)
  ELSE IF h[3].thrown THEN Throw
  ELSE Return(TRUE)

\* the generator with the two branches exchanged
handlerBranchesSwapped(input, h) ==
  IF ~OrchestratorInputDecodes(input) THEN Return(FALSE)
  ELSE IF Len(h) = 0 THEN Call("SendBonusActivationActivity", input)
  ELSE IF h[1].thrown THEN Throw
  ELSE IF Len(h) = 1 THEN
    IF SendBonusActivationFailureIs(h[1].result)
      THEN Call("SuccessBonusActivationActivity", input)
      ELSE Call("FailedBonusActivationActivity", input)
  ELSE IF h[2].thrown THEN Throw
  ELSE IF Len(h) = 2 THEN Call("UnlockBonusActivationActivity", input.familyUID)
  ELSE IF h[3].thrown THEN Throw
  ELSE Return(TRUE)

\* The generator function: what it does next, given its input and the
\* outcomes h of the tasks it has yielded so far (each a returned value or a
\* thrown error).  Replay runs the same function over the recorded outcomes.
handler(input, h) ==
  IF ~OrchestratorInputDecodes(input) THEN Return(FALSE)
  ELSE IF Len(h) = 0 THEN Call("SendBonusActivationActivity", input)
  ELSE IF h[1].thrown THEN Throw
  ELSE IF Len(h) = 1 THEN
    IF SendBonusActivationFailureIs(h[1].result)
      THEN Call("FailedBonusActivationActivity", input)
      ELSE Call("SuccessBonusActivationActivity", input)
  ELSE IF h[2].thrown THEN Throw
  ELSE IF Len(h) = 2 THEN Call("UnlockBonusActivationActivity", input.familyUID)
  ELSE IF h[3].thrown THEN Throw
  ELSE Return(TRUE)

----------------------------------------------------------------------------
(* State *)

\* the eligibility checks a user can have on record: eligible with the DSU
\* family and an expiry, or not eligible
EligibilityChecksOf(fc) ==
  { [id |-> fc, status |-> "ELIGIBLE", validBefore |-> 1,
     familyMembers |-> roster] : roster \in Rosters(fc) }
  \cup
  { [id |-> fc, status |-> "INELIGIBLE", validBefore |-> 0,
     familyMembers |-> <<>>] }

\* readings of the clock a request can see
Times == {0, 1, 2}

NoRequest == [familyUID |-> <<>>, attempts |-> 0, tried |-> {}]

NoOrchestrator ==
  [status |-> "NotStarted", input |-> <<>>, hist |-> <<>>, attempts |-> 0,
   output |-> FALSE]

\* history of the saga instance a request started, from the start of its
\* orchestrator: the lease the request took for it (acquired, familyUID), the
\* lease deletions it issued (releases) and how many tasks had completed when
\* it issued the last one (releasedAt), whether a grant request went out
\* (sent), the eligibility checks it deleted (eligDeletes), the code of its
\* activation (code), the codes that collided before it (collided) and the
\* response its request got (answer)
NewSaga(familyUID) ==
  [acquired |-> TRUE, familyUID |-> familyUID, releases |-> 0,
   releasedAt |-> 0, sent |-> FALSE, eligDeletes |-> 0, code |-> 0,
   answer |-> "none",
   collided |-> {}]

NoSaga == [NewSaga(<<>>) EXCEPT !.acquired = FALSE]

\* no handler has been invoked directly
NoCall == [op |-> "none"]

Init ==
  /\ \E S \in SUBSET FiscalCodes :
       eligibility \in {e \in [S -> UNION {EligibilityChecksOf(fc) : fc \in S}] :
                          \A fc \in S : e[fc].id = fc}
  /\ activations = <<>>
  /\ leases = [f \in FamilyUIDs |-> 0]
  /\ pc = [fc \in FiscalCodes |-> "idle"]
  /\ req = [fc \in FiscalCodes |-> NoRequest]
  /\ response = [fc \in FiscalCodes |-> "none"]
  /\ orch = [fc \in FiscalCodes |-> NoOrchestrator]
  /\ pos = [fc \in FiscalCodes |-> 0]
  /\ ghost = [fc \in FiscalCodes |-> NoSaga]
  /\ call = NoCall

----------------------------------------------------------------------------
(* StartBonusActivation *)

\* attempts at creating the activation under a fresh bonus code
CreateAttempts == 2

\* a code generator that may give a code again
AnyCode(tried) == BonusCodes

\* the codes a new attempt can be given: freshly generated, none of the codes
\* the request has tried
FreshCodes(tried) == BonusCodes \ tried

\* a request that goes on trying whatever the number of its attempts
NeverExhausted(attempts) == FALSE

\* the attempt that has just collided was the last one allowed
Exhausted(attempts) == attempts + 1 >= CreateAttempts

\* admission that does not ask whether a saga of the user is running
AdmissionNoRunningCheck(fc, now, checkRunning, queryFails) ==
  IF checkRunning THEN "IResponseErrorForbiddenNotAuthorized"
  ELSE IF queryFails THEN "IResponseErrorInternal"
  ELSE IF fc \notin DOMAIN eligibility THEN "IResponseErrorForbiddenNotAuthorized"
  ELSE IF eligibility[fc].status # "ELIGIBLE"
    THEN "IResponseErrorForbiddenNotAuthorized"
  ELSE IF eligibility[fc].validBefore < now THEN "IResponseErrorGone"
  ELSE "admit"

\* admission that takes a check expiring now as expired
AdmissionExpiredAtBoundary(fc, now, checkRunning, queryFails) ==
  IF orch[fc].status = "Running" THEN "IResponseSuccessAccepted"
  ELSE IF checkRunning THEN "IResponseErrorForbiddenNotAuthorized"
  ELSE IF queryFails THEN "IResponseErrorInternal"
  ELSE IF fc \notin DOMAIN eligibility THEN "IResponseErrorForbiddenNotAuthorized"
  ELSE IF eligibility[fc].status # "ELIGIBLE"
    THEN "IResponseErrorForbiddenNotAuthorized"
  ELSE IF eligibility[fc].validBefore <= now THEN "IResponseErrorGone"
  ELSE "admit"

\* admission that takes a failed query for a query that found nothing
AdmissionQueryErrorAsNone(fc, now, checkRunning, queryFails) ==
  IF orch[fc].status = "Running" THEN "IResponseSuccessAccepted"
  ELSE IF checkRunning THEN "IResponseErrorForbiddenNotAuthorized"
  ELSE IF queryFails \/ fc \notin DOMAIN eligibility
    THEN "IResponseErrorForbiddenNotAuthorized"
  ELSE IF eligibility[fc].status # "ELIGIBLE"
    THEN "IResponseErrorForbiddenNotAuthorized"
  ELSE IF eligibility[fc].validBefore < now THEN "IResponseErrorGone"
  ELSE "admit"

\* the outcome of the admission checks of a request of user fc at time now:
\* a running saga of the user, a running eligibility check, the lookup of
\* the eligibility check, its status, its expiry
Admission(fc, now, checkRunning, queryFails) ==
  IF orch[fc].status = "Running" THEN "IResponseSuccessAccepted"
  ELSE IF checkRunning THEN "IResponseErrorForbiddenNotAuthorized"
  ELSE IF queryFails THEN "IResponseErrorInternal"
  ELSE IF fc \notin DOMAIN eligibility THEN "IResponseErrorForbiddenNotAuthorized"
  ELSE IF eligibility[fc].status # "ELIGIBLE"
    THEN "IResponseErrorForbiddenNotAuthorized"
  ELSE IF eligibility[fc].validBefore < now THEN "IResponseErrorGone"
  ELSE "admit"

\* the request checks that it may proceed
Admit(fc) ==
  /\ UNCHANGED call
  /\ pc[fc] = "idle"
  /\ \E now \in Times, checkRunning \in BOOLEAN, queryFails \in BOOLEAN :
       LET out == Admission(fc, now, checkRunning, queryFails)
       IN  IF out = "admit"
             THEN /\ pc' = [pc EXCEPT ![fc] = "admitted"]
                  /\ req' = [req EXCEPT ![fc] =
                        [NoRequest EXCEPT !.familyUID =
                           generateFamilyUID(eligibility[fc].familyMembers)]]
                  /\ UNCHANGED response
             ELSE /\ response' = [response EXCEPT ![fc] = out]
                  /\ pc' = [pc EXCEPT ![fc] = "responded"]
                  /\ UNCHANGED req
  /\ UNCHANGED <<eligibility, activations, leases, orch, pos, ghost>>

\* a request that goes on to create its activation although the lease could
\* not be created
AcquireLeaseGoesOn(fc) ==
  /\ UNCHANGED call
  /\ pc[fc] = "admitted"
  /\ \E queryFails \in BOOLEAN :
       LET created == BonusLeaseCreate(leases, req[fc].familyUID)
       IN  /\ leases' = IF ~queryFails THEN created.leases ELSE leases
           /\ pc' = [pc EXCEPT ![fc] = "leased"]
           /\ UNCHANGED <<response, req>>
  /\ UNCHANGED <<eligibility, activations, orch, pos, ghost>>

\* the request takes the lease of the family, or ends with a conflict
AcquireLease(fc) ==
  /\ UNCHANGED call
  /\ pc[fc] = "admitted"
  /\ \E queryFails \in BOOLEAN :
       LET created == BonusLeaseCreate(leases, req[fc].familyUID)
       IN  IF ~queryFails /\ created.ok
             THEN /\ leases' = created.leases
                  /\ pc' = [pc EXCEPT ![fc] = "leased"]
                  /\ UNCHANGED <<response, req>>
             ELSE /\ response' = [response EXCEPT ![fc] = "IResponseErrorConflict"]
                  /\ pc' = [pc EXCEPT ![fc] = "responded"]
                  /\ req' = [req EXCEPT ![fc] = NoRequest]
                  /\ UNCHANGED leases
  /\ UNCHANGED <<eligibility, activations, orch, pos, ghost>>

\* the request creates the activation under a fresh code and starts the
\* orchestrator; a code already present (409) is retried with another code
CreateActivation(fc) ==
  /\ UNCHANGED call
  /\ pc[fc] = "leased"
  /\ \E code \in FreshCodes(req[fc].tried) :
       IF code \in DOMAIN activations
         THEN IF Exhausted(req[fc].attempts)
                THEN /\ leases' = BonusLeaseDeleteOneById(leases, req[fc].familyUID).leases
                     /\ response' = [response EXCEPT ![fc] = "IResponseErrorInternal"]
                     /\ pc' = [pc EXCEPT ![fc] = "responded"]
                     /\ req' = [req EXCEPT ![fc] = NoRequest]
                     /\ UNCHANGED <<activations, orch, pos, ghost>>
                ELSE /\ req' = [req EXCEPT ![fc].attempts = @ + 1,
                                           ![fc].tried = @ \cup {code}]
                     /\ UNCHANGED <<leases, response, pc, ghost, activations, orch, pos>>
         ELSE /\ activations' = BonusActivationCreateOrUpdate(activations,
                    [id |-> code, applicantFiscalCode |-> fc,
                     status |-> "PROCESSING", familyUID |-> req[fc].familyUID])
              /\ orch' = [orch EXCEPT ![fc] =
                    [NoOrchestrator EXCEPT
                       !.status = "Running",
                       !.input = [familyUID |-> req[fc].familyUID,
                                  fiscalCode |-> fc]]]
              /\ pos' = [pos EXCEPT ![fc] = 0]
              /\ ghost' = [ghost EXCEPT ![fc] =
                    [NewSaga(req[fc].familyUID) EXCEPT
                       !.code = code,
                       !.collided = req[fc].tried,
                       !.answer = "IResponseSuccessRedirectToResource"]]
              /\ response' = [response EXCEPT ![fc] = "IResponseSuccessRedirectToResource"]
              /\ pc' = [pc EXCEPT ![fc] = "responded"]
              /\ req' = [req EXCEPT ![fc] = NoRequest]
              /\ UNCHANGED leases
  /\ UNCHANGED eligibility

\* the response reaches the client, which may send another request
Receive(fc) ==
  /\ UNCHANGED call
  /\ pc[fc] = "responded"
  /\ pc' = [pc EXCEPT ![fc] = "idle"]
  /\ response' = [response EXCEPT ![fc] = "none"]
  /\ UNCHANGED <<eligibility, activations, leases, req, orch, pos, ghost>>

----------------------------------------------------------------------------
(* Durable execution of StartBonusActivationOrchestrator *)

\* what the generator of user fc does next, at its in-memory position
NextTask(fc) == handler(orch[fc].input, SubSeq(orch[fc].hist, 1, pos[fc]))

\* the generator stands at a task that has not run yet
AtNewTask(fc, name) ==
  /\ orch[fc].status = "Running"
  /\ pos[fc] = Len(orch[fc].hist)
  /\ NextTask(fc).op = "call"
  /\ NextTask(fc).name = name

\* outcome of a task: the value it returned, or the error it threw
Returned(task, result) == [task |-> task, thrown |-> FALSE, result |-> result]
Thrown(task) ==
  [task |-> task, thrown |-> TRUE, result |-> [kind |-> "ERROR", reason |-> "none"]]

\* the task's outcome is checkpointed and handed to the generator
Checkpoint(fc, outcome) ==
  /\ orch' = [orch EXCEPT ![fc].hist = Append(@, outcome)]
  /\ pos' = [pos EXCEPT ![fc] = @ + 1]

\* replay: the generator is run again over the history; every yield whose
\* outcome is recorded gets it without the task running again
OrchReplay(fc) ==
  /\ UNCHANGED call
  /\ orch[fc].status = "Running"
  /\ pos[fc] < Len(orch[fc].hist)
  /\ pos' = [pos EXCEPT ![fc] = Len(orch[fc].hist)]
  /\ UNCHANGED <<eligibility, activations, leases, pc, req, response, orch,
                 ghost>>

\* the host restarts; the generator starts again from its first line
HostCrash(fc) ==
  /\ UNCHANGED call
  /\ orch[fc].status = "Running"
  /\ pos[fc] > 0
  /\ pos' = [pos EXCEPT ![fc] = 0]
  /\ UNCHANGED <<eligibility, activations, leases, pc, req, response, orch,
                 ghost>>

\* a retry policy that allows one attempt more
RetriesExhaustedLate(attempts) == attempts >= maxNumberOfAttempts

\* the attempt that has just thrown was the last of maxNumberOfAttempts
RetriesExhausted(attempts) == attempts + 1 >= maxNumberOfAttempts

\* one attempt of SendBonusActivationActivity under callActivityWithRetry: it
\* returns a result, or throws (transient error of the service, rejected
\* call); the task fails once maxNumberOfAttempts attempts have thrown
OrchSend(fc) ==
  /\ UNCHANGED call
  /\ AtNewTask(fc, "SendBonusActivationActivity")
  /\ \/ \E result \in SendResults :
          /\ orch' = [orch EXCEPT ![fc].hist = Append(@,
                                Returned("SendBonusActivationActivity", result)),
                                  ![fc].attempts = 0]
          /\ pos' = [pos EXCEPT ![fc] = @ + 1]
          /\ ghost' = [ghost EXCEPT ![fc].sent =
                         IF result.kind = "INVALID_INPUT" THEN @ ELSE TRUE]
     \/ /\ IF RetriesExhausted(orch[fc].attempts)
             THEN /\ orch' = [orch EXCEPT ![fc].hist = Append(@,
                                            Thrown("SendBonusActivationActivity")),
                                          ![fc].attempts = 0]
                  /\ pos' = [pos EXCEPT ![fc] = @ + 1]
             ELSE /\ orch' = [orch EXCEPT ![fc].attempts = @ + 1]
                  /\ UNCHANGED pos
        /\ ghost' = [ghost EXCEPT ![fc].sent = TRUE]
  /\ UNCHANGED <<eligibility, activations, leases, pc, req, response>>

\* FailedBonusActivationActivity runs on the argument the generator gave it
OrchFailed(fc) ==
  /\ UNCHANGED call
  /\ AtNewTask(fc, "FailedBonusActivationActivity")
  /\ \E fault \in StoreFaults :
       LET res == FailedBonusActivationHandler(
                    [eligibility |-> eligibility, activations |-> activations,
                     leases |-> leases], NextTask(fc).arg, fault)
       IN  /\ eligibility' = res.stores.eligibility
           /\ activations' = res.stores.activations
           /\ leases' = res.stores.leases
           /\ Checkpoint(fc,
                IF res.thrown THEN Thrown("FailedBonusActivationActivity")
                ELSE Returned("FailedBonusActivationActivity",
                              [kind |-> res.kind, reason |-> res.reason]))
           /\ ghost' = [ghost EXCEPT
                 ![fc].eligDeletes = IF res.steps >= 1 THEN @ + 1 ELSE @,
                 ![fc].releases = IF res.steps >= 3 THEN @ + 1 ELSE @,
                 ![fc].releasedAt = IF res.steps >= 3
                                      THEN Len(orch[fc].hist) ELSE @]
  /\ UNCHANGED <<pc, req, response>>

\* SuccessBonusActivationActivity runs
OrchSuccess(fc) ==
  /\ UNCHANGED call
  /\ AtNewTask(fc, "SuccessBonusActivationActivity")
  /\ activations' = SuccessBonusActivationActivity(activations, ghost[fc].code)
  /\ Checkpoint(fc, Returned("SuccessBonusActivationActivity",
                             [kind |-> "SUCCESS", reason |-> "none"]))
  /\ UNCHANGED <<eligibility, leases, pc, req, response, ghost>>

\* UnlockBonusActivationActivity runs on the familyUID the generator gave it
OrchUnlock(fc) ==
  /\ UNCHANGED call
  /\ AtNewTask(fc, "UnlockBonusActivationActivity")
  /\ leases' = UnlockBonusActivationActivity(leases, NextTask(fc).arg)
  /\ Checkpoint(fc, Returned("UnlockBonusActivationActivity",
                             [kind |-> "SUCCESS", reason |-> "none"]))
  /\ ghost' = [ghost EXCEPT ![fc].releases = @ + 1,
                            ![fc].releasedAt = Len(orch[fc].hist)]
  /\ UNCHANGED <<eligibility, activations, pc, req, response>>

\* the generator returns: the instance completes with its return value
OrchReturn(fc) ==
  /\ UNCHANGED call
  /\ orch[fc].status = "Running"
  /\ NextTask(fc).op = "return"
  /\ orch' = [orch EXCEPT ![fc].status = "Completed",
                          ![fc].output = NextTask(fc).value]
  /\ UNCHANGED <<eligibility, activations, leases, pc, req, response, pos,
                 ghost>>

\* a task's error reaches the generator, which does not catch it: the
\* instance fails
OrchThrow(fc) ==
  /\ UNCHANGED call
  /\ orch[fc].status = "Running"
  /\ NextTask(fc).op = "throw"
  /\ orch' = [orch EXCEPT ![fc].status = "Failed"]
  /\ UNCHANGED <<eligibility, activations, leases, pc, req, response, pos,
                 ghost>>

\* the generator of user fc moves forward: a task runs, or the instance ends
OrchExec(fc) ==
  \/ OrchSend(fc)
  \/ OrchFailed(fc)
  \/ OrchSuccess(fc)
  \/ OrchUnlock(fc)
  \/ OrchReturn(fc)
  \/ OrchThrow(fc)

Next ==
  \E fc \in FiscalCodes :
    \/ Admit(fc)
    \/ AcquireLease(fc)
    \/ CreateActivation(fc)
    \/ Receive(fc)
    \/ OrchReplay(fc)
    \/ OrchExec(fc)
    \/ HostCrash(fc)

Spec == Init /\ [][Next]_vars

\* the host replays every instance it restarted, and a host that restarts
\* again and again still gets to run the task an instance is waiting for
\* Liveness is checked from the initial states in which both users hold an
\* eligible check of the same family.
InitLive ==
  /\ Init
  /\ DOMAIN eligibility = FiscalCodes
  /\ \A fc \in FiscalCodes :
       /\ eligibility[fc].status = "ELIGIBLE"
       /\ generateFamilyUID(eligibility[fc].familyMembers) = <<1, 2>>

LiveSpec ==
  /\ InitLive
  /\ [][Next]_vars
  /\ \A fc \in FiscalCodes : WF_vars(OrchReplay(fc)) /\ SF_vars(OrchExec(fc))

----------------------------------------------------------------------------
(* StartBonusActivationOrchestrator started directly on any input *)

\* inputs an instance can be started with: the one StartBonusActivation
\* gives, and objects that are no {familyUID, fiscalCode}
OrchestratorInputs ==
  { [familyUID |-> generateFamilyUID(<<1, 2>>), fiscalCode |-> 1],
    [familyUID |-> generateFamilyUID(<<1, 2>>)],
    [fiscalCode |-> 1],
    [foo |-> "bar"] }

\* the instance of user 1 has just been started on some input, with the
\* lease of the family held and the activation PROCESSING; user 2 may have
\* an eligibility check
InitOrchestrator ==
  /\ \E S \in SUBSET {2} :
       eligibility = [fc \in S \cup {1} |->
                        [id |-> fc, status |-> "ELIGIBLE", validBefore |-> 1,
                         familyMembers |-> <<1, 2>>]]
  /\ \E code \in BonusCodes :
       /\ activations = [c \in {code} |->
                           [id |-> c, applicantFiscalCode |-> 1,
                            status |-> "PROCESSING",
                            familyUID |-> generateFamilyUID(<<1, 2>>)]]
       /\ ghost = [fc \in FiscalCodes |->
                     IF fc = 1
                       THEN [NewSaga(generateFamilyUID(<<1, 2>>)) EXCEPT
                               !.code = code,
                               !.answer = "IResponseSuccessRedirectToResource"]
                       ELSE NoSaga]
  /\ leases = [f \in FamilyUIDs |->
                 IF f = generateFamilyUID(<<1, 2>>) THEN 1 ELSE 0]
  /\ pc = [fc \in FiscalCodes |-> "idle"]
  /\ req = [fc \in FiscalCodes |-> NoRequest]
  /\ response = [fc \in FiscalCodes |-> "none"]
  /\ \E input \in OrchestratorInputs :
       orch = [fc \in FiscalCodes |->
                 IF fc = 1
                   THEN [NoOrchestrator EXCEPT !.status = "Running",
                                               !.input = input]
                   ELSE NoOrchestrator]
  /\ pos = [fc \in FiscalCodes |-> 0]
  /\ call = NoCall

\* the host runs the instance: replays, tasks, restarts
NextOrchestrator ==
  \E fc \in FiscalCodes :
    \/ OrchReplay(fc)
    \/ OrchExec(fc)
    \/ HostCrash(fc)

SpecOrchestrator == InitOrchestrator /\ [][NextOrchestrator]_vars

----------------------------------------------------------------------------
(* FailedBonusActivationHandler invoked directly on the collections *)

\* ids of the documents of the eligibility-checks collection: the id is a
\* NonEmptyString, which the collection does not tie to a fiscal code
DocIds == FiscalCodes \cup BonusCodes

\* inputs given to the handler: activation candidates with their family, the
\* input of the orchestrator, an object of another shape, and a candidate
\* without its familyUID
FailedInputs ==
  { [bonusActivation |->
       [id |-> c, applicantFiscalCode |-> fc, status |-> "PROCESSING",
        familyUID |-> generateFamilyUID(<<1, 2>>), createdAt |-> 1,
        dsuRequest |-> [familyMembers |-> <<1, 2>>, maxAmount |-> 250]]] :
      c \in BonusCodes, fc \in FiscalCodes }
  \cup { [familyUID |-> generateFamilyUID(<<1, 2>>), fiscalCode |-> 1] }
  \cup { [foo |-> "bar"] }
  \cup { [bonusActivation |->
            [id |-> 11, applicantFiscalCode |-> 1, status |-> "PROCESSING"]] }

\* the collections hold any documents; no request and no saga is under way
InitFailed ==
  /\ \E S \in SUBSET DocIds :
       eligibility = [id \in S |->
                        [id |-> id, status |-> "ELIGIBLE", validBefore |-> 1,
                         familyMembers |-> <<1, 2>>]]
  /\ \E S \in SUBSET BonusCodes :
       activations = [c \in S |->
                        [id |-> c, applicantFiscalCode |-> 1,
                         status |-> "PROCESSING", familyUID |-> <<1, 2>>,
                         createdAt |-> 0,
                         dsuRequest |-> [familyMembers |-> <<1, 2>>,
                                         maxAmount |-> 250]]]
  /\ leases \in [FamilyUIDs -> {0, 1}]
  /\ pc = [fc \in FiscalCodes |-> "idle"]
  /\ req = [fc \in FiscalCodes |-> NoRequest]
  /\ response = [fc \in FiscalCodes |-> "none"]
  /\ orch = [fc \in FiscalCodes |-> NoOrchestrator]
  /\ pos = [fc \in FiscalCodes |-> 0]
  /\ ghost = [fc \in FiscalCodes |-> NoSaga]
  /\ call = NoCall

\* the invocation before this one was given the same input and reported
\* SUCCESS
Again(input) ==
  /\ call.op = "FailedBonusActivationHandler"
  /\ call.input = input
  /\ call.kind = "SUCCESS"

\* one invocation of the handler on the collections as they are
FailedRun(input, fault) ==
  LET before == [eligibility |-> eligibility, activations |-> activations,
                 leases |-> leases]
      res == FailedBonusActivationHandler(before, input, fault)
  IN  /\ eligibility' = res.stores.eligibility
      /\ activations' = res.stores.activations
      /\ leases' = res.stores.leases
      /\ call' = [op |-> "FailedBonusActivationHandler", input |-> input,
                  fault |-> fault, before |-> before, kind |-> res.kind,
                  reason |-> res.reason, thrown |-> res.thrown,
                  again |-> Again(input)]
      /\ UNCHANGED <<pc, req, response, orch, pos, ghost>>

NextFailed == \E input \in FailedInputs, fault \in StoreFaults : FailedRun(input, fault)

SpecFailed == InitFailed /\ [][NextFailed]_vars

----------------------------------------------------------------------------
(* The admission checks evaluated directly *)

\* states of the user's orchestrator instance the status query can report
InstanceStatuses == {"NotStarted", "Running", "Completed", "Failed"}

\* any eligibility checks, any status of each user's instance
InitAdmission ==
  /\ \E S \in SUBSET FiscalCodes :
       eligibility \in {e \in [S -> UNION {EligibilityChecksOf(fc) : fc \in S}] :
                          \A fc \in S : e[fc].id = fc}
  /\ activations = <<>>
  /\ leases = [f \in FamilyUIDs |-> 0]
  /\ pc = [fc \in FiscalCodes |-> "idle"]
  /\ req = [fc \in FiscalCodes |-> NoRequest]
  /\ response = [fc \in FiscalCodes |-> "none"]
  /\ orch \in [FiscalCodes -> {[NoOrchestrator EXCEPT !.status = st] :
                                 st \in InstanceStatuses}]
  /\ pos = [fc \in FiscalCodes |-> 0]
  /\ ghost = [fc \in FiscalCodes |-> NoSaga]
  /\ call = NoCall

\* the admission checks of a request of user fc, with what the clock and the
\* queries gave it
AdmissionRun(fc, now, checkRunning, queryFails) ==
  /\ call' = [op |-> "Admission", fc |-> fc, now |-> now,
              checkRunning |-> checkRunning, queryFails |-> queryFails,
              outcome |-> Admission(fc, now, checkRunning, queryFails)]
  /\ UNCHANGED <<eligibility, activations, leases, pc, req, response, orch,
                 pos, ghost>>

NextAdmission ==
  \E fc \in FiscalCodes, now \in Times, checkRunning \in BOOLEAN,
     queryFails \in BOOLEAN : AdmissionRun(fc, now, checkRunning, queryFails)

SpecAdmission == InitAdmission /\ [][NextAdmission]_vars

----------------------------------------------------------------------------
(* SendBonusActivationHandler invoked directly *)

\* inputs of the activity: bonus requests, and objects that are none
SendInputs ==
  { [codiceBuono |-> code, codiceFiscaleDichiarante |-> fc] :
      code \in BonusCodes, fc \in FiscalCodes }
  \cup { [foo |-> "bar"],
         [familyUID |-> generateFamilyUID(<<1, 2>>), fiscalCode |-> 1] }

\* error codes of the payloads of the service: the ones the client knows and
\* one it does not
ErrorCodes == {"4000", "3000", "1000", "1005", "900", "907", "908", "999"}

\* status codes of the responses that carry no grant
ErrorStatuses == {400, 500, 123}

\* what richiestaBonus can give for a request
ApiOutcomes(input) ==
  { [tag |-> "rejected"], [tag |-> "left", errors |-> [value |-> 10]],
    [tag |-> "right", response |-> [status |-> 200, value |-> [result |-> input]]] }
  \cup
  { [tag |-> "right", response |-> [status |-> st, value |-> v]] :
      st \in ErrorStatuses,
      v \in { [errorCode |-> c, errorMessage |-> "m"] : c \in ErrorCodes }
            \cup { [foo |-> "bar"] } }

\* no request yet, empty collections
InitDirect ==
  /\ eligibility = <<>>
  /\ activations = <<>>
  /\ leases = [f \in FamilyUIDs |-> 0]
  /\ pc = [fc \in FiscalCodes |-> "idle"]
  /\ req = [fc \in FiscalCodes |-> NoRequest]
  /\ response = [fc \in FiscalCodes |-> "none"]
  /\ orch = [fc \in FiscalCodes |-> NoOrchestrator]
  /\ pos = [fc \in FiscalCodes |-> 0]
  /\ ghost = [fc \in FiscalCodes |-> NoSaga]
  /\ call = NoCall

\* the outcome of the grant request as the generator gets it
SendOutcome(result) ==
  IF result.thrown
    THEN Thrown("SendBonusActivationActivity")
    ELSE Returned("SendBonusActivationActivity",
                  [kind |-> result.kind, reason |-> result.reason])

\* one invocation of the handler, and what the generator does with its outcome
SendRun(input, api) ==
  LET result == SendBonusActivationHandler(input, api)
  IN  /\ call' = [op |-> "SendBonusActivationHandler", input |-> input,
                  api |-> api, result |-> result,
                  next |-> handler([familyUID |-> generateFamilyUID(<<1, 2>>),
                                    fiscalCode |-> 1],
                                   <<SendOutcome(result)>>)]
      /\ UNCHANGED <<eligibility, activations, leases, pc, req, response,
                     orch, pos, ghost>>

NextSend == \E input \in SendInputs : \E api \in ApiOutcomes(input) : SendRun(input, api)

SpecSend == InitDirect /\ [][NextSend]_vars

----------------------------------------------------------------------------
(* ValidateEligibilityCheckActivity *)

\* a lease store in which no lease is ever found
BonusLeaseFindNone(ls, familyUID) == FALSE

\* bonusLeaseModel.find(familyUID, familyUID): some lease, or none
BonusLeaseFind(ls, familyUID) ==
  /\ familyUID \in DOMAIN ls
  /\ ls[familyUID] > 0

\* ValidateEligibilityCheckActivityInput.decode: an eligibility check of the
\* API, with the DSU request when there is one
ValidateEligibilityCheckActivityInputDecodes(input) ==
  /\ {"id", "status"} \subseteq DOMAIN input
  /\ input.status \in {"ELIGIBLE", "INELIGIBLE", "CONFLICT", "FAILURE"}
  /\ input.status \in {"ELIGIBLE", "CONFLICT"} => "dsu_request" \in DOMAIN input

\* a handler that takes a failed lookup and an undecoded input for "no
\* lease": it returns what it was given
ValidateEligibilityCheckActivityHandlerLenient(ls, input, queryFails) ==
  IF ~ValidateEligibilityCheckActivityInputDecodes(input)
    THEN [thrown |-> FALSE, value |-> input, queried |-> FALSE, leases |-> ls]
  ELSE IF input.status # "ELIGIBLE"
    THEN [thrown |-> FALSE, value |-> input, queried |-> FALSE, leases |-> ls]
  ELSE
    LET members == input.dsu_request.family_members
        familyUID == generateFamilyUID([i \in DOMAIN members |->
                                          members[i].fiscal_code])
    IN  IF queryFails \/ ~BonusLeaseFind(ls, familyUID)
          THEN [thrown |-> FALSE, value |-> input, queried |-> TRUE,
                leases |-> ls]
        ELSE [thrown |-> FALSE,
              value |-> [input EXCEPT !.status = "CONFLICT"],
              queried |-> TRUE, leases |-> ls]

\* the handler of the activity: the check it returns (value), or the error it
\* throws (thrown), whether it asked the lease store (queried), and the
\* lease store it leaves (leases): find is the only call it makes on it
ValidateEligibilityCheckActivityHandler(ls, input, queryFails) ==
  IF ~ValidateEligibilityCheckActivityInputDecodes(input)
    THEN [thrown |-> TRUE, value |-> input, queried |-> FALSE, leases |-> ls]
  ELSE IF input.status # "ELIGIBLE"
    THEN [thrown |-> FALSE, value |-> input, queried |-> FALSE, leases |-> ls]
  ELSE
    LET members == input.dsu_request.family_members
        familyUID == generateFamilyUID([i \in DOMAIN members |->
                                          members[i].fiscal_code])
    IN  IF queryFails
          THEN [thrown |-> TRUE, value |-> input, queried |-> TRUE,
                leases |-> ls]
        ELSE IF ~BonusLeaseFind(ls, familyUID)
          THEN [thrown |-> FALSE, value |-> input, queried |-> TRUE,
                leases |-> ls]
        ELSE [thrown |-> FALSE,
              value |-> [input EXCEPT !.status = "CONFLICT"],
              queried |-> TRUE, leases |-> ls]

\* the DSU request of a family
DsuRequest(roster) ==
  [family_members |-> [i \in DOMAIN roster |->
     [fiscal_code |-> roster[i], name |-> "n", surname |-> "s"]]]

\* inputs of the activity: eligibility checks of the API in every status,
\* and an object that is none
ValidateInputs ==
  { [id |-> fc, status |-> st, dsu_request |-> DsuRequest(roster)] :
      fc \in FiscalCodes, st \in {"ELIGIBLE", "CONFLICT"},
      roster \in UNION {Rosters(u) : u \in FiscalCodes} }
  \cup { [id |-> fc, status |-> st] :
           fc \in FiscalCodes, st \in {"INELIGIBLE", "FAILURE"} }
  \cup { [foo |-> "bar"] }

\* any leases, no request
InitValidate ==
  /\ eligibility = <<>>
  /\ activations = <<>>
  /\ leases \in [FamilyUIDs -> {0, 1}]
  /\ pc = [fc \in FiscalCodes |-> "idle"]
  /\ req = [fc \in FiscalCodes |-> NoRequest]
  /\ response = [fc \in FiscalCodes |-> "none"]
  /\ orch = [fc \in FiscalCodes |-> NoOrchestrator]
  /\ pos = [fc \in FiscalCodes |-> 0]
  /\ ghost = [fc \in FiscalCodes |-> NoSaga]
  /\ call = NoCall

\* one invocation of the activity; queryFails: find rejects, or resolves
\* with a query error
ValidateRun(input, queryFails) ==
  /\ call' = [op |-> "ValidateEligibilityCheckActivity", input |-> input,
              queryFails |-> queryFails,
              result |-> ValidateEligibilityCheckActivityHandler(
                           leases, input, queryFails)]
  /\ leases' = ValidateEligibilityCheckActivityHandler(
                  leases, input, queryFails).leases
  /\ UNCHANGED <<eligibility, activations, pc, req, response,
                 orch, pos, ghost>>

NextValidate ==
  \E input \in ValidateInputs, queryFails \in BOOLEAN :
    ValidateRun(input, queryFails)

SpecValidate == InitValidate /\ [][NextValidate]_vars

----------------------------------------------------------------------------
(* Codecs of the eligibility check: API object <-> domain object *)

\* t.success, t.failure
Success(value) == [ok |-> TRUE, value |-> value]
Failure(value) == [ok |-> FALSE, value |-> value]

\* ErrorEnum of EligibilityCheckFailure, the same names on both sides
ErrorEnum == {"DATABASE_OFFLINE", "DATA_NOT_FOUND", "INTERNAL_ERROR", "INVALID_REQUEST"}

\* EligibilityCheckSuccessEligibleApi.is, and the family members it holds
FamilyMembersApiIs(fms) ==
  \A i \in DOMAIN fms : {"fiscal_code", "name", "surname"} \subseteq DOMAIN fms[i]
EligibilityCheckSuccessEligibleApiIs(o) ==
  /\ {"family_members", "id", "max_amount", "max_tax_benefit", "status",
      "valid_before"} \subseteq DOMAIN o
  /\ o.status = "ELIGIBLE"
  /\ FamilyMembersApiIs(o.family_members)

\* EligibilityCheckSuccessEligible.is, and the family members it holds
FamilyMembersIs(fms) ==
  \A i \in DOMAIN fms : {"fiscalCode", "name", "surname"} \subseteq DOMAIN fms[i]
EligibilityCheckSuccessEligibleIs(o) ==
  /\ {"familyMembers", "id", "maxAmount", "maxTaxBenefit", "status",
      "validBefore"} \subseteq DOMAIN o
  /\ o.status = "ELIGIBLE"
  /\ FamilyMembersIs(o.familyMembers)

\* EligibilityCheckSuccessIneligible.is, of the API and of the domain
EligibilityCheckSuccessIneligibleIs(o) ==
  /\ {"id", "status"} \subseteq DOMAIN o
  /\ o.status = "INELIGIBLE"

\* EligibilityCheckFailureApi.is
EligibilityCheckFailureApiIs(o) ==
  /\ {"error", "error_description", "id"} \subseteq DOMAIN o
  /\ o.error \in ErrorEnum

\* EligibilityCheckFailure.is
EligibilityCheckFailureIs(o) ==
  /\ {"error", "errorDescription", "id"} \subseteq DOMAIN o
  /\ o.error \in ErrorEnum

\* validate of a codec: the object made is one of the type, or the decoding
\* fails
Validated(isOfType, made) == IF isOfType THEN Success(made) ELSE Failure(made)

ModelEligibilityCheckSuccessEligibleFromApi(apiObject) ==
  LET fromApiObject ==
        [familyMembers |-> [i \in DOMAIN apiObject.family_members |->
            [fiscalCode |-> apiObject.family_members[i].fiscal_code,
             name |-> apiObject.family_members[i].name,
             surname |-> apiObject.family_members[i].surname]],
         id |-> apiObject.id,
         maxAmount |-> apiObject.max_amount,
         maxTaxBenefit |-> apiObject.max_tax_benefit,
         status |-> "ELIGIBLE",
         validBefore |-> apiObject.valid_before]
  IN  Validated(EligibilityCheckSuccessEligibleIs(fromApiObject), fromApiObject)

\* the mapping with the two amounts exchanged
ApiEligibilityCheckSuccessEligibleFromModelSwapped(domainObject) ==
  LET fromDomainObject ==
        [family_members |-> [i \in DOMAIN domainObject.familyMembers |->
            [fiscal_code |-> domainObject.familyMembers[i].fiscalCode,
             name |-> domainObject.familyMembers[i].name,
             surname |-> domainObject.familyMembers[i].surname]],
         id |-> domainObject.id,
         max_amount |-> domainObject.maxTaxBenefit,
         max_tax_benefit |-> domainObject.maxAmount,
         status |-> "ELIGIBLE",
         valid_before |-> domainObject.validBefore]
  IN  Validated(EligibilityCheckSuccessEligibleApiIs(fromDomainObject),
                fromDomainObject)

ApiEligibilityCheckSuccessEligibleFromModel(domainObject) ==
  LET fromDomainObject ==
        [family_members |-> [i \in DOMAIN domainObject.familyMembers |->
            [fiscal_code |-> domainObject.familyMembers[i].fiscalCode,
             name |-> domainObject.familyMembers[i].name,
             surname |-> domainObject.familyMembers[i].surname]],
         id |-> domainObject.id,
         max_amount |-> domainObject.maxAmount,
         max_tax_benefit |-> domainObject.maxTaxBenefit,
         status |-> "ELIGIBLE",
         valid_before |-> domainObject.validBefore]
  IN  Validated(EligibilityCheckSuccessEligibleApiIs(fromDomainObject),
                fromDomainObject)

ModelEligibilityCheckSuccessIneligibleFromApi(apiObject) ==
  LET fromApiObject == [id |-> apiObject.id, status |-> "INELIGIBLE"]
  IN  Validated(EligibilityCheckSuccessIneligibleIs(fromApiObject), fromApiObject)

ApiEligibilityCheckSuccessIneligibleFromModel(domainObject) ==
  LET fromDomainObject == [id |-> domainObject.id, status |-> "INELIGIBLE"]
  IN  Validated(EligibilityCheckSuccessIneligibleIs(fromDomainObject),
                fromDomainObject)

\* the error of the one side for the error of the other; a value that is none
\* of the four is unhandled (unhandledValue throws, the codec fails)
MapError(error) ==
  IF error = "DATABASE_OFFLINE" THEN "DATABASE_OFFLINE"
  ELSE IF error = "DATA_NOT_FOUND" THEN "DATA_NOT_FOUND"
  ELSE IF error = "INTERNAL_ERROR" THEN "INTERNAL_ERROR"
  ELSE IF error = "INVALID_REQUEST" THEN "INVALID_REQUEST"
  ELSE "unhandledValue"

ModelEligibilityCheckFailureFromApi(apiObject) ==
  LET fromApiObject ==
        [error |-> MapError(apiObject.error),
         errorDescription |-> apiObject.error_description,
         id |-> apiObject.id]
  IN  IF fromApiObject.error = "unhandledValue" THEN Failure(apiObject)
      ELSE Validated(EligibilityCheckFailureIs(fromApiObject), fromApiObject)

ApiEligibilityCheckFailureFromModel(domainObject) ==
  LET fromDomainObject ==
        [error |-> MapError(domainObject.error),
         error_description |-> domainObject.errorDescription,
         id |-> domainObject.id]
  IN  IF fromDomainObject.error = "unhandledValue" THEN Failure(domainObject)
      ELSE Validated(EligibilityCheckFailureApiIs(fromDomainObject),
                     fromDomainObject)

\* ModelEligibilityCheckFromApi: the domain object of an API object
ModelEligibilityCheckFromApi(apiObject) ==
  IF EligibilityCheckSuccessEligibleApiIs(apiObject)
    THEN ModelEligibilityCheckSuccessEligibleFromApi(apiObject)
  ELSE IF EligibilityCheckSuccessIneligibleIs(apiObject)
    THEN ModelEligibilityCheckSuccessIneligibleFromApi(apiObject)
  ELSE IF EligibilityCheckFailureApiIs(apiObject)
    THEN ModelEligibilityCheckFailureFromApi(apiObject)
  ELSE Failure(apiObject)

\* ApiEligibilityCheckFromModel: the API object of a domain object
ApiEligibilityCheckFromModel(domainObject) ==
  IF EligibilityCheckSuccessEligibleIs(domainObject)
    THEN ApiEligibilityCheckSuccessEligibleFromModel(domainObject)
  ELSE IF EligibilityCheckSuccessIneligibleIs(domainObject)
    THEN ApiEligibilityCheckSuccessIneligibleFromModel(domainObject)
  ELSE IF EligibilityCheckFailureIs(domainObject)
    THEN ApiEligibilityCheckFailureFromModel(domainObject)
  ELSE Failure(domainObject)

\* maximum amount and maximum tax benefit of a bonus, by size of the family
BonusAmounts == {<<150, 30>>, <<250, 50>>, <<500, 100>>}

\* the valid objects of the API: eligible, ineligible, failure
ValidApiObjects ==
  { [family_members |-> DsuRequest(roster).family_members, id |-> fc,
     max_amount |-> amounts[1], max_tax_benefit |-> amounts[2],
     status |-> "ELIGIBLE", valid_before |-> validBefore] :
      roster \in UNION {Rosters(u) : u \in FiscalCodes}, fc \in FiscalCodes,
      amounts \in BonusAmounts, validBefore \in Times }
  \cup { [id |-> fc, status |-> "INELIGIBLE"] : fc \in FiscalCodes }
  \cup { [error |-> error, error_description |-> "lorem ipsum", id |-> fc] :
           error \in ErrorEnum, fc \in FiscalCodes }

\* the valid objects of the domain: eligible, ineligible, failure
ValidDomainObjects ==
  { [familyMembers |-> [i \in DOMAIN roster |->
        [fiscalCode |-> roster[i], name |-> "n", surname |-> "s"]],
     id |-> fc, maxAmount |-> amounts[1], maxTaxBenefit |-> amounts[2],
     status |-> "ELIGIBLE", validBefore |-> validBefore] :
      roster \in UNION {Rosters(u) : u \in FiscalCodes}, fc \in FiscalCodes,
      amounts \in BonusAmounts, validBefore \in Times }
  \cup { [id |-> fc, status |-> "INELIGIBLE"] : fc \in FiscalCodes }
  \cup { [error |-> error, errorDescription |-> "lorem ipsum", id |-> fc] :
           error \in ErrorEnum, fc \in FiscalCodes }

\* objects that are no eligibility check
InvalidObjects == { [foo |-> "bar"], [id |-> 1, status |-> "CONFLICT"] }

\* an object of the API decoded to the domain, and the result decoded back
RoundTripFromApi(apiObject) ==
  LET there == ModelEligibilityCheckFromApi(apiObject)
  IN  /\ call' = [op |-> "ModelEligibilityCheckFromApi", input |-> apiObject,
                  there |-> there,
                  back |-> IF there.ok THEN ApiEligibilityCheckFromModel(there.value)
                           ELSE there]
      /\ UNCHANGED <<eligibility, activations, leases, pc, req, response,
                     orch, pos, ghost>>

\* an object of the domain decoded to the API, and the result decoded back
RoundTripFromModel(domainObject) ==
  LET there == ApiEligibilityCheckFromModel(domainObject)
  IN  /\ call' = [op |-> "ApiEligibilityCheckFromModel", input |-> domainObject,
                  there |-> there,
                  back |-> IF there.ok THEN ModelEligibilityCheckFromApi(there.value)
                           ELSE there]
      /\ UNCHANGED <<eligibility, activations, leases, pc, req, response,
                     orch, pos, ghost>>

NextCodecs ==
  \/ \E apiObject \in ValidApiObjects \cup InvalidObjects :
       RoundTripFromApi(apiObject)
  \/ \E domainObject \in ValidDomainObjects \cup InvalidObjects :
       RoundTripFromModel(domainObject)

SpecCodecs == InitDirect /\ [][NextCodecs]_vars

----------------------------------------------------------------------------
(* generateFamilyUID invoked directly *)

\* longest list of family members drawn
MaxRoster == 3

\* lists of family members, by fiscal code; a member can be listed twice
AnyRosters == UNION {[1..n -> FiscalCodes] : n \in 1..MaxRoster}

\* the FamilyUIDs of two lists of family members
HashRun(a, b) ==
  /\ call' = [op |-> "generateFamilyUID", a |-> a, b |-> b,
              uidA |-> generateFamilyUID(a), uidB |-> generateFamilyUID(b)]
  /\ UNCHANGED <<eligibility, activations, leases, pc, req, response,
                 orch, pos, ghost>>

NextHash == \E a, b \in AnyRosters : HashRun(a, b)

SpecHash == InitDirect /\ [][NextHash]_vars

----------------------------------------------------------------------------
(* clients/adeClient.ts: serializeBonus *)

\* Number.toString, Date.toISOString: the string that spells the value
NumberToString(n) == [digits |-> n]
toISOString(d) == [iso |-> d]

\* the fiscal codes of nucleoFamiliare, in the order of the list
CodiciFiscali(nucleoFamiliare) ==
  [i \in DOMAIN nucleoFamiliare |-> nucleoFamiliare[i].codiceFiscale]

\* the serialization that takes the family members in the order given
serializeBonusUnsorted(bv) ==
  [parts |-> <<bv.codiceFiscaleDichiarante, bv.codiceBuono,
               NumberToString(bv.importoMassimo),
               toISOString(bv.dataGenerazione),
               NumberToString(bv.flagDifformita)>>
             \o CodiciFiscali(bv.nucleoFamiliare),
   nucleoFamiliare |-> bv.nucleoFamiliare]

\* serializeBonus: the parts it joins, and the list of family members as the
\* call leaves it (map makes a new array, which sort orders in place)
serializeBonus(bv) ==
  [parts |-> <<bv.codiceFiscaleDichiarante, bv.codiceBuono,
               NumberToString(bv.importoMassimo),
               toISOString(bv.dataGenerazione),
               NumberToString(bv.flagDifformita)>>
             \o SortCodes(CodiciFiscali(bv.nucleoFamiliare)),
   nucleoFamiliare |-> bv.nucleoFamiliare]

\* bonuses to serialize: every requester, code, amount, date and flag, with
\* the given family
BonusVacanze(roster) ==
  { [codiceFiscaleDichiarante |-> fc, codiceBuono |-> code,
     importoMassimo |-> amount, dataGenerazione |-> date,
     flagDifformita |-> flag,
     nucleoFamiliare |-> [i \in DOMAIN roster |-> [codiceFiscale |-> roster[i]]]] :
      fc \in FiscalCodes, code \in BonusCodes, amount \in {150, 500},
      date \in {1}, flag \in {0, 1} }

\* lists of family members to serialize, some of them in several orders
SerializeRosters ==
  {<<1>>, <<1, 2>>, <<2, 1>>, <<2, 1, 1>>, <<1, 1, 2>>, <<1, 2, 1>>}

\* a bonus is serialized, and so is the bonus with another list of members
SerializeRun(bv, roster) ==
  LET other == [bv EXCEPT !.nucleoFamiliare =
                  [i \in DOMAIN roster |-> [codiceFiscale |-> roster[i]]]]
  IN  /\ call' = [op |-> "serializeBonus", bv |-> bv, other |-> other,
                  result |-> serializeBonus(bv),
                  resultOther |-> serializeBonus(other)]
      /\ UNCHANGED <<eligibility, activations, leases, pc, req, response,
                     orch, pos, ghost>>

NextSerialize ==
  \E a, b \in SerializeRosters : \E bv \in BonusVacanze(a) : SerializeRun(bv, b)

SpecSerialize == InitDirect /\ [][NextSerialize]_vars

----------------------------------------------------------------------------
(* utils/conversions.ts: toEligibilityCheckFromDSU *)

\* MaxBonusAmount150, MaxBonusAmount250, MaxBonusAmount500: the amount and
\* the tax benefit that goes with it
MaxBonusAmountOf(amount) ==
  [max_amount |-> amount, max_tax_benefit |-> [of |-> amount]]

\* the amounts with the threshold of the largest one a member too low
calculateMaxBonusAmountFromFamilyMemberCountEarly(familyMemberCount) ==
  IF familyMemberCount >= 2
    THEN [thrown |-> FALSE, value |-> MaxBonusAmountOf(500)]
  ELSE IF familyMemberCount = 1
    THEN [thrown |-> FALSE, value |-> MaxBonusAmountOf(150)]
  ELSE [thrown |-> TRUE, value |-> MaxBonusAmountOf(0)]

\* calculateMaxBonusAmountFromFamilyMemberCount: the amount for the count,
\* or the fatal error it throws
calculateMaxBonusAmountFromFamilyMemberCount(familyMemberCount) ==
  IF familyMemberCount > 2
    THEN [thrown |-> FALSE, value |-> MaxBonusAmountOf(500)]
  ELSE IF familyMemberCount = 2
    THEN [thrown |-> FALSE, value |-> MaxBonusAmountOf(250)]
  ELSE IF familyMemberCount = 1
    THEN [thrown |-> FALSE, value |-> MaxBonusAmountOf(150)]
  ELSE [thrown |-> TRUE, value |-> MaxBonusAmountOf(0)]

\* FamilyMemberCount.decode on the number of components
FamilyMemberCountDecodes(count) == count >= 1

\* the family member made of a component of the response
FamilyMemberOf(c) ==
  [fiscal_code |-> c.CodiceFiscale, name |-> c.Nome, surname |-> c.Cognome]

\* FamilyMember.decode: a fiscal code, a name and a surname that are not empty
FamilyMemberDecodes(fm) ==
  /\ fm.fiscal_code \in FiscalCodes
  /\ fm.name # ""
  /\ fm.surname # ""

\* EligibilityCheckFailure.encode
EligibilityCheckFailureOf(error, description, fiscalCode) ==
  [thrown |-> FALSE,
   value |-> [error |-> error, error_description |-> description,
              id |-> fiscalCode, status |-> "FAILURE"]]

\* toEligibilityCheckFromDSU: the eligibility check of the API made of the
\* response of the DSU service
toEligibilityCheckFromDSU(data, fiscalCode, validBefore) ==
  LET Componenti == IF "DatiIndicatore" \in DOMAIN data
                      THEN data.DatiIndicatore.Componenti ELSE <<>>
  IN
  IF Componenti = <<>>
    THEN EligibilityCheckFailureOf("INTERNAL_ERROR",
           "DatiIndicatore.Componenti is empty", fiscalCode)
  ELSE IF ~FamilyMemberCountDecodes(Len(Componenti))
    THEN EligibilityCheckFailureOf("INTERNAL_ERROR",
           "Family member count is out of range", fiscalCode)
  ELSE
  LET bonusValue == calculateMaxBonusAmountFromFamilyMemberCount(Len(Componenti))
      validFamilyMembers ==
        SelectSeq([i \in DOMAIN Componenti |-> FamilyMemberOf(Componenti[i])],
                  FamilyMemberDecodes)
  IN
  IF bonusValue.thrown
    THEN [thrown |-> TRUE, value |-> [id |-> fiscalCode, status |-> "none"]]
  ELSE IF data.Esito # "OK"
    THEN EligibilityCheckFailureOf(
           IF data.Esito = "DATI_NON_TROVATI" THEN "DATA_NOT_FOUND"
           ELSE IF data.Esito = "RICHIESTA_INVALIDA" THEN "INVALID_REQUEST"
           ELSE "INTERNAL_ERROR",
           "Esito value is not OK", fiscalCode)
  ELSE IF data.DatiIndicatore.SottoSoglia = "SI"
    THEN [thrown |-> FALSE,
          value |-> [dsu_request |->
                       [family_members |-> validFamilyMembers,
                        max_amount |-> bonusValue.value.max_amount,
                        max_tax_benefit |-> bonusValue.value.max_tax_benefit],
                     id |-> fiscalCode, status |-> "ELIGIBLE",
                     valid_before |-> validBefore]]
  ELSE [thrown |-> FALSE,
        value |-> [id |-> fiscalCode, status |-> "INELIGIBLE"]]

\* most components of a response drawn
MaxComponenti == 3

\* components of a response: two that decode as family members and one,
\* without a name, that does not
ComponentiDrawn ==
  { [CodiceFiscale |-> 1, Nome |-> "n", Cognome |-> "s"],
    [CodiceFiscale |-> 2, Nome |-> "n", Cognome |-> "s"],
    [CodiceFiscale |-> 2, Nome |-> "", Cognome |-> "s"] }

\* values of Esito: OK, the two errors the conversion names, and another one
EsitoEnum == {"OK", "DATI_NON_TROVATI", "RICHIESTA_INVALIDA", "ERRORE_INTERNO"}

\* responses of the DSU service, with and without DatiIndicatore
DSUResponses ==
  { [Esito |-> esito] : esito \in EsitoEnum }
  \cup
  { [Esito |-> esito,
     DatiIndicatore |-> [Componenti |-> componenti, SottoSoglia |-> sotto]] :
      esito \in EsitoEnum, sotto \in {"SI", "NO"},
      componenti \in UNION {[1..n -> ComponentiDrawn] : n \in 0..MaxComponenti} }

\* numbers of family members given to the calculation of the amount
FamilyMemberCounts == (0 - 1)..5

\* one conversion of a response
DSURun(data, fiscalCode) ==
  /\ call' = [op |-> "toEligibilityCheckFromDSU", data |-> data,
              fiscalCode |-> fiscalCode,
              result |-> toEligibilityCheckFromDSU(data, fiscalCode, 1)]
  /\ UNCHANGED <<eligibility, activations, leases, pc, req, response,
                 orch, pos, ghost>>

\* one calculation of the amount
AmountRun(count) ==
  /\ call' = [op |-> "calculateMaxBonusAmountFromFamilyMemberCount",
              count |-> count,
              result |-> calculateMaxBonusAmountFromFamilyMemberCount(count)]
  /\ UNCHANGED <<eligibility, activations, leases, pc, req, response,
                 orch, pos, ghost>>

NextDSU ==
  \/ \E data \in DSUResponses, fiscalCode \in FiscalCodes : DSURun(data, fiscalCode)
  \/ \E count \in FamilyMemberCounts : AmountRun(count)

SpecDSU == InitDirect /\ [][NextDSU]_vars

----------------------------------------------------------------------------
(* Properties of FailedBonusActivationHandler *)

\* the last invocation was of FailedBonusActivationHandler, on an input it
\* decodes
FailedRan ==
  /\ call.op = "FailedBonusActivationHandler"
  /\ FailedBonusActivationInputDecodes(call.input)

\* the collections as the last invocation left them
StoresNow ==
  [eligibility |-> eligibility, activations |-> activations, leases |-> leases]

\* effects of the three steps of the last invocation on candidate ba
Deleted(ba) ==
  /\ ba.id \in DOMAIN call.before.eligibility
  /\ eligibility = Without(call.before.eligibility, ba.id)
Upserted(ba) ==
  activations = With(call.before.activations, ba.id, [ba EXCEPT !.status = "FAILED"])
Released(ba) ==
  leases = [call.before.leases EXCEPT ![ba.familyUID] = 0]

\* C11: a run of the handler on a candidate, the first one or one that
\* follows a successful run on the same candidate, reports SUCCESS without
\* raising when no query fails, and leaves the applicant's eligibility check
\* absent, the activation FAILED and the lease absent; the second run leaves
\* the collections as the first one did.
C11_CompensationIdempotent ==
  (FailedRan /\ call.fault = "none") =>
    LET ba == call.input.bonusActivation
    IN  /\ ~call.thrown
        /\ call.kind = "SUCCESS"
        /\ ba.applicantFiscalCode \notin DOMAIN eligibility
        /\ ba.id \in DOMAIN activations
        /\ activations[ba.id].status = "FAILED"
        /\ leases[ba.familyUID] = 0
        /\ call.again => StoresNow = call.before

\* C12: the handler deletes the eligibility check, then upserts the
\* activation as FAILED, then releases the lease; a failing step leaves the
\* collections of the later steps as they were, and SUCCESS is reported only
\* when the three steps have completed.
C12_StepsInOrder ==
  /\ (call.op = "FailedBonusActivationHandler" /\ ~FailedRan) =>
        (call.kind = "INVALID_INPUT" /\ StoresNow = call.before)
  /\ FailedRan =>
        LET ba == call.input.bonusActivation
        IN  /\ call.kind \in {"SUCCESS", "TRANSIENT", "UNHANDLED_FAILURE"}
            /\ call.kind = "SUCCESS" =>
                  (Deleted(ba) /\ Upserted(ba) /\ Released(ba))
            /\ call.kind = "TRANSIENT" => StoresNow = call.before
            /\ (call.kind = "UNHANDLED_FAILURE" /\ call.fault = "updateBonusAsFailed") =>
                  /\ Deleted(ba)
                  /\ activations = call.before.activations
                  /\ leases = call.before.leases
            /\ (call.kind = "UNHANDLED_FAILURE" /\ call.fault # "updateBonusAsFailed") =>
                  /\ Deleted(ba)
                  /\ Upserted(ba)
                  /\ leases = call.before.leases
            /\ activations # call.before.activations => Deleted(ba)
            /\ leases # call.before.leases => (Deleted(ba) /\ Upserted(ba))

\* C12 witness: the upsert failed after the eligibility check was deleted;
\* the lease, which is there, was not touched
C12_Witness ==
  /\ FailedRan
  /\ call.fault = "updateBonusAsFailed"
  /\ call.kind = "UNHANDLED_FAILURE"
  /\ eligibility # call.before.eligibility
  /\ activations = call.before.activations
  /\ call.before.leases[call.input.bonusActivation.familyUID] = 1
  /\ leases = call.before.leases

\* C13: a failure deleting the eligibility check is TRANSIENT and is thrown,
\* and nothing else is thrown; a failure of the upsert or of the lease
\* release is returned as UNHANDLED_FAILURE with the error message as reason.
C13_FailureClasses ==
  FailedRan =>
    LET ba == call.input.bonusActivation
        deleteFailed == \/ call.fault = "deleteEligibilityCheck"
                        \/ ba.id \notin DOMAIN call.before.eligibility
    IN  /\ deleteFailed => (call.kind = "TRANSIENT" /\ call.thrown)
        /\ call.thrown <=> call.kind = "TRANSIENT"
        /\ (~deleteFailed /\ call.fault = "updateBonusAsFailed") =>
              /\ ~call.thrown
              /\ call.kind = "UNHANDLED_FAILURE"
              /\ call.reason = "err.message"
        /\ (~deleteFailed /\ call.fault = "relaseLockForUserFamily") =>
              /\ ~call.thrown
              /\ call.kind = "UNHANDLED_FAILURE"
              /\ call.reason = "Error releasing lock: err.message"

\* C13 witness: the deletion of an existing eligibility check failed and the
\* handler threw
C13_Witness ==
  /\ FailedRan
  /\ call.fault = "deleteEligibilityCheck"
  /\ call.input.bonusActivation.id \in DOMAIN call.before.eligibility
  /\ call.kind = "TRANSIENT"
  /\ call.thrown

\* C15: the eligibility check the handler deletes is the one of the
\* applicant of the candidate and no other: when no query fails and the
\* applicant has one it is deleted, and no other document is removed.
C15_DeletesApplicantsRecord ==
  FailedRan =>
    LET ba == call.input.bonusActivation
    IN  /\ (call.fault = "none" /\ ba.applicantFiscalCode \in DOMAIN call.before.eligibility)
              => ba.applicantFiscalCode \notin DOMAIN eligibility
        /\ eligibility # call.before.eligibility =>
              eligibility = Without(call.before.eligibility, ba.applicantFiscalCode)

----------------------------------------------------------------------------
(* Properties of the admission checks *)

\* the last invocation was of the admission checks, and reached the lookup
\* of the eligibility check: no saga and no eligibility check of the user
\* was running
LookedUp ==
  /\ call.op = "Admission"
  /\ orch[call.fc].status # "Running"
  /\ ~call.checkRunning

\* C16: with no saga running, a user without eligibility check is refused as
\* forbidden, one whose check is not ELIGIBLE is refused as forbidden, one
\* whose ELIGIBLE check expired strictly before now is answered gone, and
\* only a user with an ELIGIBLE check that has not expired is admitted.
C16_AdmissionOrder ==
  /\ (LookedUp /\ ~call.queryFails) =>
        LET fc == call.fc
        IN  IF fc \notin DOMAIN eligibility
              THEN call.outcome = "IResponseErrorForbiddenNotAuthorized"
            ELSE IF eligibility[fc].status # "ELIGIBLE"
              THEN call.outcome = "IResponseErrorForbiddenNotAuthorized"
            ELSE IF eligibility[fc].validBefore < call.now
              THEN call.outcome = "IResponseErrorGone"
            ELSE call.outcome = "admit"
  /\ (call.op = "Admission" /\ call.outcome = "admit") =>
        /\ call.fc \in DOMAIN eligibility
        /\ eligibility[call.fc].status = "ELIGIBLE"
        /\ eligibility[call.fc].validBefore >= call.now

\* C16 witness: a user whose ELIGIBLE check expires at this very moment is
\* admitted
C16_Witness ==
  /\ LookedUp
  /\ call.fc \in DOMAIN eligibility
  /\ eligibility[call.fc].status = "ELIGIBLE"
  /\ eligibility[call.fc].validBefore = call.now
  /\ call.outcome = "admit"

\* C18: when the lookup of the eligibility check fails the request is never
\* admitted, and a request that reached the lookup ends with the internal
\* error, not with the answer given for a missing check.
C18_QueryFailure ==
  (call.op = "Admission" /\ call.queryFails) =>
    /\ call.outcome # "admit"
    /\ LookedUp => call.outcome = "IResponseErrorInternal"

\* C18 witness: the lookup failed for a user who has no eligibility check,
\* and the outcome is the internal error
C18_Witness ==
  /\ LookedUp
  /\ call.queryFails
  /\ call.fc \notin DOMAIN eligibility
  /\ call.outcome = "IResponseErrorInternal"

----------------------------------------------------------------------------
(* Properties of the saga *)

\* user fc holds the lease of family f: its request has created the lease and
\* has not started the orchestrator yet, or the saga it started has issued no
\* lease deletion yet
Holds(fc, f) ==
  \/ pc[fc] = "leased" /\ req[fc].familyUID = f
  \/ ghost[fc].acquired /\ ghost[fc].releases = 0 /\ ghost[fc].familyUID = f

\* the saga of user fc, of family f, has its grant request or its branch
\* activity still to complete
InGrant(fc, f) ==
  /\ orch[fc].status = "Running"
  /\ orch[fc].input.familyUID = f
  /\ ~\E i \in 1..Len(orch[fc].hist) :
        orch[fc].hist[i].task \in {"FailedBonusActivationActivity",
                                    "SuccessBonusActivationActivity"}

\* the orchestrator of user fc has returned true
Done(fc) == orch[fc].status = "Completed" /\ orch[fc].output = TRUE

\* the value SendBonusActivationActivity returned to the saga of user fc
SendReturned(fc, kind) ==
  \E i \in 1..Len(orch[fc].hist) :
    /\ orch[fc].hist[i].task = "SendBonusActivationActivity"
    /\ ~orch[fc].hist[i].thrown
    /\ orch[fc].hist[i].result.kind = kind

\* the branch activity of the saga of user fc has completed, and was task
BranchTaken(fc, task) ==
  \E i \in 1..Len(orch[fc].hist) : orch[fc].hist[i].task = task

\* the saga of user fc has left no lease document of family f behind: there is
\* none, or a later request has created it again
LeaseAbsent(fc, f) ==
  \/ leases[f] = 0
  \/ \E u \in FiscalCodes : pc[u] = "leased" /\ req[u].familyUID = f
  \/ \E other \in FiscalCodes \ {fc} : Holds(other, f)

\* the BonusActivation row the saga of user fc was started for
SagaRow(fc) == activations[ghost[fc].code]

\* C1: every family has at most one lease document at any time, and a request
\* that tries to create the lease of a family whose lease exists ends with
\* the conflict response and creates no second document, while the request
\* that creates it goes on holding it.
C1_OneLeasePerFamily ==
  /\ [](\A f \in FamilyUIDs : leases[f] <= 1)
  /\ [][\A fc \in FiscalCodes :
          (pc[fc] = "admitted" /\ pc'[fc] # "admitted") =>
            LET f == req[fc].familyUID
            IN  \/ /\ leases[f] = 0
                   /\ leases' = [leases EXCEPT ![f] = 1]
                   /\ pc'[fc] = "leased"
                \/ /\ leases' = leases
                   /\ pc'[fc] = "responded"
                   /\ response'[fc] = "IResponseErrorConflict"]_vars

\* C1 witness: one user holds the lease of the family and the other user of
\* the family has been answered with a conflict
C1_Witness ==
  \E a, b \in FiscalCodes :
    /\ a # b
    /\ pc[a] = "leased"
    /\ leases[req[a].familyUID] = 1
    /\ b \in DOMAIN eligibility
    /\ generateFamilyUID(eligibility[b].familyMembers) = req[a].familyUID
    /\ pc[b] = "responded"
    /\ response[b] = "IResponseErrorConflict"

\* C2: in every family at most one user is between the creation and the
\* release of the lease, and the sagas of two users of the same family never
\* have their grant request or branch activity pending at the same time.
C2_OneSagaPerFamily ==
  \A f \in FamilyUIDs : \A a, b \in FiscalCodes :
    a # b =>
      /\ ~(Holds(a, f) /\ Holds(b, f))
      /\ ~(InGrant(a, f) /\ InGrant(b, f))
      /\ ~(InGrant(a, f) /\ Holds(b, f))

\* C2 witness: a saga has its grant request pending while the other user of
\* the family has been refused the lease
C2_Witness ==
  \E a, b \in FiscalCodes : \E f \in FamilyUIDs :
    /\ a # b
    /\ InGrant(a, f) /\ Holds(a, f)
    /\ b \in DOMAIN eligibility
    /\ generateFamilyUID(eligibility[b].familyMembers) = f
    /\ pc[b] = "responded"
    /\ response[b] = "IResponseErrorConflict"

\* C3: a saga issues its grant request only while it holds the lease, and
\* from the creation of the lease until the saga issues its deletion the
\* lease document is there, also while the restarted generator is replayed.
C3_LeaseHeldFromAcquisition ==
  \A fc \in FiscalCodes :
    /\ AtNewTask(fc, "SendBonusActivationActivity") =>
          Holds(fc, orch[fc].input.familyUID)
    /\ ghost[fc].sent => ghost[fc].acquired
    /\ \A f \in FamilyUIDs : Holds(fc, f) => leases[f] = 1

\* C3 witness: the host has restarted after the grant request went out; the
\* generator is still to be replayed and the lease is held
C3_Witness ==
  \E fc \in FiscalCodes :
    /\ orch[fc].status = "Running"
    /\ pos[fc] < Len(orch[fc].hist)
    /\ ghost[fc].sent
    /\ Holds(fc, ghost[fc].familyUID)
    /\ leases[ghost[fc].familyUID] = 1
C5_ReleasedExactlyOnce ==
  \A fc \in FiscalCodes :
    /\ ghost[fc].releases <= 1
    /\ orch[fc].status = "Completed" => ghost[fc].releases = 1

\* C5 witness: a completed saga that went through compensation and issued one
\* lease deletion
C5_Witness ==
  \E fc \in FiscalCodes :
    /\ orch[fc].status = "Completed"
    /\ BranchTaken(fc, "FailedBonusActivationActivity")
    /\ SendReturned(fc, "FAILURE")
    /\ ghost[fc].releases = 1

\* C6: SuccessBonusActivationActivity is scheduled only when the grant
\* executor returned Success, and never both branches in one run.
C6_SuccessOnlyOnSuccess ==
  \A fc \in FiscalCodes :
    /\ BranchTaken(fc, "SuccessBonusActivationActivity") =>
          SendReturned(fc, "SUCCESS")
    /\ ~(/\ BranchTaken(fc, "SuccessBonusActivationActivity")
          /\ BranchTaken(fc, "FailedBonusActivationActivity"))

\* C7: the argument the orchestrator gives the compensation handler is one
\* FailedBonusActivationInput decodes, so compensation never returns
\* INVALID_INPUT.
C7_CompensationInputDecodes ==
  \A fc \in FiscalCodes :
    /\ AtNewTask(fc, "FailedBonusActivationActivity") =>
          FailedBonusActivationInputDecodes(NextTask(fc).arg)
    /\ \A i \in 1..Len(orch[fc].hist) :
          orch[fc].hist[i].task = "FailedBonusActivationActivity" =>
            orch[fc].hist[i].result.kind # "INVALID_INPUT"

\* C8: a saga whose grant was rejected by the service ends with the
\* requester's eligibility check deleted, the activation FAILED and the lease
\* of the family absent.
C8_RejectedEndState ==
  \A fc \in FiscalCodes :
    (Done(fc) /\ SendReturned(fc, "FAILURE")) =>
      /\ fc \notin DOMAIN eligibility
      /\ SagaRow(fc).status = "FAILED"
      /\ LeaseAbsent(fc, ghost[fc].familyUID)

C10_CompletedSideEffects ==
  \A fc \in FiscalCodes :
    orch[fc].status = "Completed" =>
      /\ Cardinality({c \in DOMAIN activations :
                        /\ activations[c].applicantFiscalCode = fc
                        /\ c = ghost[fc].code}) = 1
      /\ SagaRow(fc).status \in {"ACTIVE", "FAILED"}
      /\ ghost[fc].eligDeletes <= 1
      /\ ghost[fc].releases >= 1

\* C14: a saga on the failure branch ends only after an invocation of the
\* compensation handler has completed its three steps and returned SUCCESS,
\* the host invoking it again after an invocation that failed.
C14_CompensationRetriedToSuccess ==
  \A fc \in FiscalCodes :
    (/\ orch[fc].status \in {"Completed", "Failed"}
     /\ BranchTaken(fc, "FailedBonusActivationActivity")) =>
      \E i \in 1..Len(orch[fc].hist) :
        /\ orch[fc].hist[i].task = "FailedBonusActivationActivity"
        /\ ~orch[fc].hist[i].thrown
        /\ orch[fc].hist[i].result.kind = "SUCCESS"

\* C17: a request of a user whose saga is running is answered accepted,
\* whatever its eligibility check, the clock and the queries give, and
\* changes neither the instance nor the collections; no request of that
\* user is past admission while the saga runs.
C17_RunningShortCircuits ==
  /\ [](\A fc \in FiscalCodes :
          orch[fc].status = "Running" => pc[fc] \in {"idle", "responded"})
  /\ [][\A fc \in FiscalCodes :
          (orch[fc].status = "Running" /\ pc[fc] = "idle" /\ pc'[fc] # "idle") =>
            /\ pc'[fc] = "responded"
            /\ response'[fc] = "IResponseSuccessAccepted"
            /\ orch'[fc] = orch[fc]
            /\ UNCHANGED <<eligibility, activations, leases, ghost>>]_vars

\* C17 witness: a request made while the saga of the user is running has
\* been answered accepted; the saga has its grant request out
C17_Witness ==
  \E fc \in FiscalCodes :
    /\ orch[fc].status = "Running"
    /\ ghost[fc].sent
    /\ pc[fc] = "responded"
    /\ response[fc] = "IResponseSuccessAccepted"

C20_BoundedAttempts ==
  /\ [](\A fc \in FiscalCodes : req[fc].attempts < CreateAttempts)
  /\ [][\A fc \in FiscalCodes :
          (/\ pc[fc] = "leased"
           /\ req[fc].attempts = CreateAttempts - 1
           /\ req'[fc] # req[fc]
           /\ activations' = activations) =>
            /\ pc'[fc] = "responded"
            /\ response'[fc] = "IResponseErrorInternal"
            /\ orch'[fc] = orch[fc]]_vars

\* C20 witness: every code of the request collided and it was answered with
\* the internal error, no saga of the user having started
C20_Witness ==
  \E fc \in FiscalCodes :
    /\ pc[fc] = "responded"
    /\ response[fc] = "IResponseErrorInternal"
    /\ BonusCodes \subseteq DOMAIN activations
    /\ orch[fc].status = "NotStarted"
    /\ fc \in DOMAIN eligibility
    /\ eligibility[fc].status = "ELIGIBLE"

\* C21: a request whose lease creation meets the lease of the family ends at
\* once with the conflict response: no activation is created, no
\* orchestrator is started, the lease and the other collections stay as they
\* were, and the request does not try again.
C21_ConflictEndsRequest ==
  [][\A fc \in FiscalCodes :
       (/\ pc[fc] = "admitted"
        /\ leases[req[fc].familyUID] > 0
        /\ pc'[fc] # "admitted") =>
         /\ pc'[fc] = "responded"
         /\ response'[fc] = "IResponseErrorConflict"
         /\ req'[fc] = NoRequest
         /\ UNCHANGED <<leases, activations, eligibility, orch, pos, ghost>>]_vars

\* C21 witness: the saga of one user of the family is under way and holds the
\* lease; the other user was answered with the conflict, has no activation
\* and no orchestrator instance
C21_Witness ==
  \E a, b \in FiscalCodes :
    /\ a # b
    /\ orch[a].status = "Running"
    /\ leases[orch[a].input.familyUID] = 1
    /\ pc[b] = "responded"
    /\ response[b] = "IResponseErrorConflict"
    /\ orch[b].status = "NotStarted"
    /\ \A c \in DOMAIN activations : activations[c].applicantFiscalCode # b

\* the last invocation was of SendBonusActivationHandler, on a bonus request,
\* and the service answered with a decoded response
SendGotResponse ==
  /\ call.op = "SendBonusActivationHandler"
  /\ {"codiceBuono", "codiceFiscaleDichiarante"} \subseteq DOMAIN call.input
  /\ call.api.tag = "right"

\* the payload of the response is an error of the service with one of the
\* given codes
PayloadHasCode(codes) ==
  /\ {"errorCode", "errorMessage"} \subseteq DOMAIN call.api.response.value
  /\ call.api.response.value.errorCode \in codes

\* C22: for a 2xx response carrying a grant confirmation the grant executor
\* returns Success, and for a response whose payload is one of the five
\* validation errors (code already present, requested by other family
\* member, empty family, missing fiscal code, missing generation date) it
\* returns, and does not throw, a Failure whose reason is the decoded payload.
C22_SuccessAndInvalidRequest ==
  SendGotResponse =>
    /\ (/\ call.api.response.status = 200
        /\ "result" \in DOMAIN call.api.response.value) =>
          /\ ~call.result.thrown
          /\ call.result.kind = "SUCCESS"
    /\ (/\ call.api.response.status # 200
        /\ PayloadHasCode({"1000", "1005", "900", "907", "908"})) =>
          /\ ~call.result.thrown
          /\ call.result.kind = "FAILURE"
          /\ call.result.reason = call.api.response.value

\* C22 witness: a response with the missing-generation-date error was turned
\* into a returned Failure carrying it
C22_Witness ==
  /\ SendGotResponse
  /\ call.api.response.status = 400
  /\ PayloadHasCode({"908"})
  /\ call.result.kind = "FAILURE"
  /\ call.result.reason = call.api.response.value

\* C23: when the response carries a transient error (code 4000 or 3000), and
\* when the call is rejected, the grant executor throws and returns neither a
\* Failure nor a Success; the generator that gets the error throws as well
\* and does not call the compensation.
C23_TransientIsThrown ==
  (/\ call.op = "SendBonusActivationHandler"
   /\ {"codiceBuono", "codiceFiscaleDichiarante"} \subseteq DOMAIN call.input
   /\ \/ call.api.tag = "rejected"
      \/ /\ call.api.tag = "right"
         /\ call.api.response.status # 200
         /\ PayloadHasCode({"4000", "3000"})) =>
    /\ call.result.thrown
    /\ call.result.kind \notin {"FAILURE", "SUCCESS"}
    /\ call.next.op = "throw"

\* C23 witness: a 500 response with the generic application error was thrown
\* as it came
C23_Witness ==
  /\ SendGotResponse
  /\ call.api.response.status = 500
  /\ PayloadHasCode({"3000"})
  /\ call.result.thrown
  /\ call.result.error = call.api.response

C25_InvalidInputReturned ==
  (/\ call.op = "SendBonusActivationHandler"
   /\ ~({"codiceBuono", "codiceFiscaleDichiarante"} \subseteq DOMAIN call.input)) =>
    /\ call.result.kind = "INVALID_INPUT"
    /\ ~call.result.thrown
    /\ ~call.result.apiCalled

\* C25 witness: the handler answered the input of the orchestrator, which is
\* no grant request, while the service was set to reject the call
C25_Witness ==
  /\ call.op = "SendBonusActivationHandler"
  /\ "familyUID" \in DOMAIN call.input
  /\ call.api.tag = "rejected"
  /\ call.result.kind = "INVALID_INPUT"

\* the grant request of the saga of fc failed: its retries are used up
SendGaveUp(fc) ==
  /\ Len(orch[fc].hist) >= 1
  /\ orch[fc].hist[1].thrown

\* C26: SendBonusActivationActivity is attempted at most maxNumberOfAttempts
\* (10) times: the task fails exactly when its tenth attempt throws, and from
\* then on the instance runs no other step (no success step, no
\* compensation, no unlock), does not complete, and leaves the activation
\* PROCESSING and the lease held.
C26_BoundedSendRetries ==
  /\ [](\A fc \in FiscalCodes :
         /\ orch[fc].attempts + 1 <= maxNumberOfAttempts
         /\ SendGaveUp(fc) =>
              /\ Len(orch[fc].hist) = 1
              /\ orch[fc].status \in {"Running", "Failed"}
              /\ ghost[fc].releases = 0
              /\ ghost[fc].eligDeletes = 0
              /\ leases[ghost[fc].familyUID] = 1
              /\ activations[ghost[fc].code].status = "PROCESSING")
  /\ [][\A fc \in FiscalCodes :
          (~SendGaveUp(fc) /\ SendGaveUp(fc)') =>
            orch[fc].attempts + 1 = maxNumberOfAttempts]_vars

\* C26 witness: an instance has failed after the last attempt of its grant
\* request threw, with its activation still PROCESSING
C26_Witness ==
  \E fc \in FiscalCodes :
    /\ SendGaveUp(fc)
    /\ orch[fc].status = "Failed"
    /\ orch[fc].attempts = 0
    /\ activations[ghost[fc].code].status = "PROCESSING"

\* the tasks the instance of fc has run are the first steps of the saga, in
\* order: the grant request, one of the two branch activities, the unlock
StepsInSagaOrder(fc) ==
  LET hist == orch[fc].hist
  IN  /\ Len(hist) <= 3
      /\ Len(hist) >= 1 => hist[1].task = "SendBonusActivationActivity"
      /\ Len(hist) >= 2 =>
            hist[2].task \in {"FailedBonusActivationActivity",
                              "SuccessBonusActivationActivity"}
      /\ Len(hist) >= 3 => hist[3].task = "UnlockBonusActivationActivity"

\* C27: within one saga instance the steps run one after the other and none
\* is repeated: the tasks run are SendBonusActivationActivity, then exactly
\* one of FailedBonusActivationActivity and SuccessBonusActivationActivity,
\* then UnlockBonusActivationActivity, each at most once, and a task runs
\* only when the generator has the results of all the tasks before it and
\* the last of them did not throw; a replay runs no task again.
C27_StepsSequential ==
  /\ [](\A fc \in FiscalCodes : StepsInSagaOrder(fc))
  /\ [][\A fc \in FiscalCodes :
          orch'[fc].hist # orch[fc].hist =>
            \/ /\ orch[fc].status # "Running"
               /\ orch'[fc].status = "Running"
               /\ orch'[fc].hist = <<>>
            \/ /\ orch[fc].status = "Running"
               /\ pos[fc] = Len(orch[fc].hist)
               /\ Len(orch[fc].hist) > 0 =>
                    ~orch[fc].hist[Len(orch[fc].hist)].thrown
               /\ Len(orch'[fc].hist) = Len(orch[fc].hist) + 1
               /\ SubSeq(orch'[fc].hist, 1, Len(orch[fc].hist)) = orch[fc].hist
               /\ pos'[fc] = Len(orch'[fc].hist)]_vars

\* C27 witness: an instance that has run its three steps was restarted by the
\* host before it returned, and stands at the start of its replay
C27_Witness ==
  \E fc \in FiscalCodes :
    /\ orch[fc].status = "Running"
    /\ Len(orch[fc].hist) = 3
    /\ orch[fc].hist[3].task = "UnlockBonusActivationActivity"
    /\ pos[fc] = 0

\* the fiscal codes listed in a roster
Members(roster) == {roster[i] : i \in DOMAIN roster}

\* C28: generateFamilyUID depends only on the set of the members' fiscal
\* codes: two rosters get the same FamilyUID exactly when they list the same
\* members, whatever the order and however many times a member is listed.
C28_FamilyUIDOfMemberSet ==
  call.op = "generateFamilyUID" =>
    ((Members(call.a) = Members(call.b)) <=> (call.uidA = call.uidB))

\* the last invocation was of the ValidateEligibilityCheck activity, on an
\* eligibility check
ValidateRan ==
  /\ call.op = "ValidateEligibilityCheckActivity"
  /\ {"id", "status"} \subseteq DOMAIN call.input

\* a lease is held for the family of the check given to the last invocation
LeaseOfInputHeld ==
  \E f \in DOMAIN leases :
    /\ leases[f] > 0
    /\ Len(f) = Len(call.input.dsu_request.family_members)
    /\ \A c \in FiscalCodes :
         Cardinality({i \in DOMAIN f : f[i] = c}) =
         Cardinality({i \in DOMAIN call.input.dsu_request.family_members :
                        call.input.dsu_request.family_members[i].fiscal_code = c})

\* C29: the ValidateEligibilityCheck activity returns an ELIGIBLE check with
\* status CONFLICT, and nothing else changed, exactly when a lease is held
\* for the FamilyUID of its family members, and unchanged when none is; it
\* returns every check that is not ELIGIBLE unchanged and does not ask the
\* lease store for it; it throws only when the query of the lease fails.
C29_ConflictIffLease ==
  ValidateRan =>
    IF call.input.status = "ELIGIBLE"
      THEN /\ call.result.queried
           /\ call.result.thrown <=> call.queryFails
           /\ (~call.result.thrown /\ LeaseOfInputHeld) =>
                 call.result.value = [call.input EXCEPT !.status = "CONFLICT"]
           /\ (~call.result.thrown /\ ~LeaseOfInputHeld) =>
                 call.result.value = call.input
      ELSE /\ ~call.result.thrown
           /\ ~call.result.queried
           /\ call.result.value = call.input

\* C29 witness: an ELIGIBLE check whose members are listed in another order
\* than the sorted one came back CONFLICT, the lease of the family being held
C29_Witness ==
  /\ ValidateRan
  /\ call.input.status = "ELIGIBLE"
  /\ call.input.dsu_request.family_members[1].fiscal_code = 2
  /\ Len(call.input.dsu_request.family_members) = 2
  /\ call.result.value.status = "CONFLICT"
  /\ ~call.result.thrown

\* C30: ModelEligibilityCheckFromApi and ApiEligibilityCheckFromModel are
\* inverse of each other on the valid objects: every valid eligible,
\* ineligible or failure object of the one representation decodes to a valid
\* object of the other, and that one decodes back to an object equal to the
\* original, in both directions.
C30_CodecsRoundTrip ==
  /\ (call.op = "ModelEligibilityCheckFromApi" /\ call.input \in ValidApiObjects) =>
       /\ call.there.ok
       /\ call.there.value \in ValidDomainObjects
       /\ call.back.ok
       /\ call.back.value = call.input
  /\ (call.op = "ApiEligibilityCheckFromModel" /\ call.input \in ValidDomainObjects) =>
       /\ call.there.ok
       /\ call.there.value \in ValidApiObjects
       /\ call.back.ok
       /\ call.back.value = call.input

\* C30 witness: an eligible object of the API, with two family members and
\* two different amounts, went to the domain and came back
C30_Witness ==
  /\ call.op = "ModelEligibilityCheckFromApi"
  /\ EligibilityCheckSuccessEligibleApiIs(call.input)
  /\ Len(call.input.family_members) = 2
  /\ call.there.value.maxAmount = 500
  /\ call.there.value.maxTaxBenefit = 100
  /\ call.back.value.max_amount = 500

\* the two lists hold the same elements the same number of times
PermutationOf(s, t) ==
  /\ Len(s) = Len(t)
  /\ \A c \in FiscalCodes :
       Cardinality({i \in DOMAIN s : s[i] = c}) =
       Cardinality({i \in DOMAIN t : t[i] = c})

\* C31: serializeBonus joins the requester's fiscal code, the bonus code, the
\* max amount, the generation timestamp and the discrepancy flag, in this
\* order, and then the fiscal codes of the family members in lexicographic
\* order; two bonuses that differ only by the order of their family members
\* serialize the same, and the list given is left in the order it had.
C31_SerializeBonus ==
  call.op = "serializeBonus" =>
    LET parts == call.result.parts
        codes == SubSeq(parts, 6, Len(parts))
        given == [i \in DOMAIN call.bv.nucleoFamiliare |->
                    call.bv.nucleoFamiliare[i].codiceFiscale]
        givenOther == [i \in DOMAIN call.other.nucleoFamiliare |->
                         call.other.nucleoFamiliare[i].codiceFiscale]
    IN  /\ parts[1] = call.bv.codiceFiscaleDichiarante
        /\ parts[2] = call.bv.codiceBuono
        /\ parts[3] = [digits |-> call.bv.importoMassimo]
        /\ parts[4] = [iso |-> call.bv.dataGenerazione]
        /\ parts[5] = [digits |-> call.bv.flagDifformita]
        /\ PermutationOf(codes, given)
        /\ \A i \in 1..(Len(codes) - 1) : codes[i] <= codes[i + 1]
        /\ PermutationOf(given, givenOther) =>
              call.result.parts = call.resultOther.parts
        /\ call.result.nucleoFamiliare = call.bv.nucleoFamiliare

\* C31 witness: a bonus whose members are listed in descending order and the
\* same bonus with the members in ascending order were serialized alike
C31_Witness ==
  /\ call.op = "serializeBonus"
  /\ Len(call.bv.nucleoFamiliare) = 3
  /\ Len(call.other.nucleoFamiliare) = 3
  /\ call.bv.nucleoFamiliare[1].codiceFiscale = 2
  /\ call.bv.nucleoFamiliare[3].codiceFiscale = 1
  /\ call.other.nucleoFamiliare[1].codiceFiscale = 1
  /\ call.other.nucleoFamiliare[3].codiceFiscale = 2
  /\ call.result.parts = call.resultOther.parts

\* C32: the compensation never deletes a BonusActivation row and changes no
\* row but the one of the candidate it is given; the row it stores is the
\* candidate with the status FAILED: identifier, requester, creation time,
\* eligibility snapshot and familyUID are the candidate's.
C32_OnlyStatusChanges ==
  call.op = "FailedBonusActivationHandler" =>
    /\ DOMAIN call.before.activations \subseteq DOMAIN activations
    /\ \A c \in DOMAIN call.before.activations :
         activations[c] # call.before.activations[c] =>
           (FailedRan /\ c = call.input.bonusActivation.id)
    /\ activations # call.before.activations =>
         /\ FailedRan
         /\ LET ba == call.input.bonusActivation
                row == activations[ba.id]
            IN  /\ DOMAIN activations = DOMAIN call.before.activations \cup {ba.id}
                /\ DOMAIN row = DOMAIN ba
                /\ row.status = "FAILED"
                /\ \A field \in DOMAIN ba \ {"status"} : row[field] = ba[field]
    /\ (FailedRan /\ call.kind = "SUCCESS") =>
         /\ call.input.bonusActivation.id \in DOMAIN activations
         /\ activations[call.input.bonusActivation.id].status = "FAILED"

\* C32 witness: the compensation stored the candidate of user 2 as FAILED,
\* with its creation time and its eligibility snapshot, over the row that
\* was there under its code, and left the row of the other code as it was
C32_Witness ==
  /\ FailedRan
  /\ DOMAIN call.before.activations = BonusCodes
  /\ \E c \in BonusCodes :
       /\ c = call.input.bonusActivation.id
       /\ call.before.activations[c].createdAt = 0
       /\ activations[c].status = "FAILED"
       /\ activations[c].applicantFiscalCode = 2
       /\ activations[c].createdAt = 1
       /\ activations[c].dsuRequest = call.input.bonusActivation.dsuRequest
       /\ \A d \in BonusCodes \ {c} : activations[d] = call.before.activations[d]

\* the input of the last invocation is {bonusActivation} with a
\* BonusActivationWithFamilyUID
IsCandidateWithFamilyUID(input) ==
  /\ "bonusActivation" \in DOMAIN input
  /\ \A field \in {"id", "applicantFiscalCode", "status", "familyUID"} :
       field \in DOMAIN input.bonusActivation

\* C33: on an input that does not decode as {bonusActivation:
\* BonusActivationWithFamilyUID} FailedBonusActivationHandler returns
\* INVALID_INPUT, does not raise and performs no store operation, whatever
\* the stores would answer: eligibility checks, activations and leases are
\* as they were.
C33_InvalidInputNoEffect ==
  (call.op = "FailedBonusActivationHandler" /\ ~IsCandidateWithFamilyUID(call.input)) =>
    /\ call.kind = "INVALID_INPUT"
    /\ ~call.thrown
    /\ eligibility = call.before.eligibility
    /\ activations = call.before.activations
    /\ leases = call.before.leases

\* C33 witness: a candidate without familyUID was given while its code was
\* the id of an eligibility check and of an activation and the lease of the
\* family was held; the handler answered INVALID_INPUT
C33_Witness ==
  /\ call.op = "FailedBonusActivationHandler"
  /\ "bonusActivation" \in DOMAIN call.input
  /\ "familyUID" \notin DOMAIN call.input.bonusActivation
  /\ call.input.bonusActivation.id \in DOMAIN eligibility
  /\ call.input.bonusActivation.id \in DOMAIN activations
  /\ leases[generateFamilyUID(<<1, 2>>)] = 1
  /\ call.kind = "INVALID_INPUT"

\* the amount of a family of n members
AmountFor(n) == IF n = 1 THEN 150 ELSE IF n = 2 THEN 250 ELSE 500

\* the last invocation converted a response of the DSU service
ConvertedDSU == call.op = "toEligibilityCheckFromDSU"

\* the components of the response given to the last conversion
ComponentiGiven ==
  IF "DatiIndicatore" \in DOMAIN call.data
    THEN call.data.DatiIndicatore.Componenti ELSE <<>>

C38_FailureByEsito ==
  ConvertedDSU =>
    /\ ~call.result.thrown
    /\ call.result.value.status \in {"ELIGIBLE", "INELIGIBLE"} =>
         call.data.Esito = "OK"
    /\ call.data.Esito # "OK" =>
         /\ call.result.value.status = "FAILURE"
         /\ call.result.value.error =
              (IF call.data.Esito = "DATI_NON_TROVATI" THEN "DATA_NOT_FOUND"
               ELSE IF call.data.Esito = "RICHIESTA_INVALIDA" THEN "INVALID_REQUEST"
               ELSE "INTERNAL_ERROR")

\* C39: in every ELIGIBLE check the conversion makes, max_amount is the
\* amount for the number of family members the check lists: 150 for one,
\* 250 for two, 500 for three or more.
C39_AmountOfListedMembers ==
  (ConvertedDSU /\ call.result.value.status = "ELIGIBLE") =>
    LET listed == Len(call.result.value.dsu_request.family_members)
    IN  /\ listed >= 1
        /\ call.result.value.dsu_request.max_amount = AmountFor(listed)

\* C35: an instance whose input does not decode as {familyUID, fiscalCode}
\* schedules no activity and returns false: nothing is recorded in its
\* history, no grant request goes out, no lease is released, no eligibility
\* check is deleted and the activation stays as it was; the instance does
\* not fail.
C35_UndecodedInputReturnsFalse ==
  \A fc \in FiscalCodes :
    (/\ orch[fc].status # "NotStarted"
     /\ ~({"familyUID", "fiscalCode"} \subseteq DOMAIN orch[fc].input)) =>
      /\ orch[fc].hist = <<>>
      /\ orch[fc].attempts = 0
      /\ orch[fc].status \in {"Running", "Completed"}
      /\ orch[fc].status = "Completed" => orch[fc].output = FALSE
      /\ ~ghost[fc].sent
      /\ ghost[fc].releases = 0
      /\ ghost[fc].eligDeletes = 0
      /\ leases[ghost[fc].familyUID] = 1
      /\ fc \in DOMAIN eligibility
      /\ activations[ghost[fc].code].status = "PROCESSING"

\* C35 witness: an instance started without a fiscalCode in its input has
\* completed with false, the lease still held
C35_Witness ==
  \E fc \in FiscalCodes :
    /\ orch[fc].status = "Completed"
    /\ "familyUID" \in DOMAIN orch[fc].input
    /\ "fiscalCode" \notin DOMAIN orch[fc].input
    /\ orch[fc].output = FALSE
    /\ orch[fc].hist = <<>>
    /\ leases[ghost[fc].familyUID] = 1

\* C37: the ValidateEligibilityCheck activity raises an error when its input
\* does not decode and when the lookup of the lease fails; on a failed
\* lookup it never returns the check, neither as ELIGIBLE nor as CONFLICT;
\* and no invocation, whatever its outcome, creates or deletes a lease.
C37_FailedLookupRaises ==
  /\ [](call.op = "ValidateEligibilityCheckActivity" =>
          /\ ~({"id", "status"} \subseteq DOMAIN call.input) =>
                call.result.thrown /\ ~call.result.queried
          /\ (call.queryFails /\ call.result.queried) => call.result.thrown
          /\ (ValidateRan /\ call.input.status = "ELIGIBLE"
                /\ call.queryFails) =>
                call.result.queried /\ call.result.thrown)
  /\ [][call'.op = "ValidateEligibilityCheckActivity" =>
          /\ leases' = leases
          /\ call'.result.leases = leases]_vars

\* C37 witness: the lookup failed for an ELIGIBLE check whose family holds a
\* lease; the activity raised, the lease still there
C37_Witness ==
  /\ ValidateRan
  /\ call.input.status = "ELIGIBLE"
  /\ call.queryFails
  /\ call.result.thrown
  /\ LeaseOfInputHeld

\* the saga instance of user fc issues a lease deletion in this step
ReleaseStep(fc) ==
  /\ ghost[fc].acquired
  /\ ghost'[fc].code = ghost[fc].code
  /\ ghost'[fc].releases = ghost[fc].releases + 1

\* the saga instance of user fc has taken the lease of its family and has
\* issued no deletion of it
Unreleased(fc) ==
  /\ orch[fc].status # "NotStarted"
  /\ ghost[fc].acquired
  /\ ghost[fc].releases = 0

\* C36: a lease deletion issued by a saga instance removes only the lease
\* this instance took: the lease of every instance that has not released
\* is in the store and no two such instances share it, an instance issues a
\* deletion only while its own lease is there, and a release step of
\* instance A (the release of the compensation handler, or the final
\* unlock) leaves in place the lease of every other instance B, the one B
\* took after the lease of A was gone included.
C36_ReleaseOnlyOwnLease ==
  /\ [](\A a \in FiscalCodes :
          Unreleased(a) =>
            /\ leases[ghost[a].familyUID] = 1
            /\ \A b \in FiscalCodes \ {a} :
                  ~(Unreleased(b) /\ ghost[b].familyUID = ghost[a].familyUID))
  /\ [][\A a \in FiscalCodes :
          ReleaseStep(a) =>
            /\ ghost[a].releases = 0
            /\ leases[ghost[a].familyUID] = 1
            /\ \A b \in FiscalCodes \ {a} :
                  (Unreleased(b) /\ leases[ghost[b].familyUID] = 1) =>
                    leases'[ghost[b].familyUID] = 1]_vars

\* C36 witness: instance A has released its lease and has not returned yet,
\* its generator being replayed over the recorded unlock, while instance B
\* of the same family has taken the lease and holds it
C36_Witness ==
  \E a, b \in FiscalCodes :
    /\ a # b
    /\ orch[a].status = "Running"
    /\ ghost[a].releases = 1
    /\ pos[a] < Len(orch[a].hist)
    /\ Unreleased(b)
    /\ orch[b].status = "Running"
    /\ ghost[b].familyUID = ghost[a].familyUID
    /\ leases[ghost[b].familyUID] = 1

====
